---- MODULE Spec2Model ----
(***************************************************************************)
(* Model of the expression evaluator and graph sampler of AI-Math-Studio   *)
(* (utils/math: safeEvaluate, generateGraphPoints).                        *)
(*                                                                         *)
(* JavaScript values are records [k, c, n, d]:                             *)
(*   k  the kind: "number", "string", "boolean", "undefined", "null",      *)
(*      "object", "array", "function";                                     *)
(*   c  for a number its class: "fin", "nan", "pinf", "ninf"; for any      *)
(*      other kind its text (the string's characters, the function's name);*)
(*   n, d  for a finite number the value n/d in lowest terms with d > 0.   *)
(* Finite numbers are exact rationals: rounding of doubles and the sign of *)
(* zero are not modelled; NaN and the infinities follow IEEE 754.          *)
(***************************************************************************)
EXTENDS Integers, Sequences, FiniteSets, TLC

\* ------------------------------------------------------------ bounds
\* steps ranges over 0..MaxSteps
MaxSteps == 4
\* minX and maxX range over -MaxAbsX..MaxAbsX
MaxAbsX == 2

\* ------------------------------------------------------------ JS values
RECURSIVE Gcd(_, _)
Gcd(a, b) == IF b = 0 THEN a ELSE Gcd(b, a % b)

AbsInt(a) == IF a < 0 THEN -a ELSE a

\* the finite number n/d (d # 0), in lowest terms with a positive denominator
Fin(n, d) ==
  LET s == IF d < 0 THEN -1 ELSE 1
      g == Gcd(AbsInt(n), AbsInt(d))
  IN  [k |-> "number", c |-> "fin", n |-> (s * n) \div g, d |-> (s * d) \div g]

NaN == [k |-> "number", c |-> "nan", n |-> 0, d |-> 1]
PosInf == [k |-> "number", c |-> "pinf", n |-> 0, d |-> 1]
NegInf == [k |-> "number", c |-> "ninf", n |-> 0, d |-> 1]
Other(kind, text) == [k |-> kind, c |-> text, n |-> 0, d |-> 1]
Str(text) == Other("string", text)
Bool(b) == Other("boolean", IF b THEN "true" ELSE "false")
Undefined == Other("undefined", "undefined")
Null == Other("null", "null")

\* typeof v
TypeOf(v) ==
  CASE v.k = "null" -> "object"
    [] v.k = "array" -> "object"
    [] OTHER -> v.k

\* isFinite(v) and isNaN(v) for v a number
IsFinite(v) == v.k = "number" /\ v.c = "fin"
IsNaN(v) == v.k = "number" /\ v.c = "nan"

Sign(v) ==
  CASE v.c = "pinf" -> 1
    [] v.c = "ninf" -> -1
    [] v.c = "nan" -> 0
    [] OTHER -> IF v.n > 0 THEN 1 ELSE IF v.n < 0 THEN -1 ELSE 0

InfOf(s) == IF s > 0 THEN PosInf ELSE NegInf

\* ToNumber(v)
ToNumber(v) ==
  CASE v.k = "number" -> v
    [] v.k = "null" -> Fin(0, 1)
    [] v.k = "boolean" -> IF v.c = "true" THEN Fin(1, 1) ELSE Fin(0, 1)
    [] OTHER -> NaN

\* a + b, a - b, a * b, a / b on numbers
NumAdd(a, b) ==
  CASE a.c = "nan" \/ b.c = "nan" -> NaN
    [] a.c = "fin" /\ b.c = "fin" -> Fin(a.n * b.d + b.n * a.d, a.d * b.d)
    [] a.c = "fin" -> b
    [] b.c = "fin" -> a
    [] OTHER -> IF a.c = b.c THEN a ELSE NaN

NumNeg(a) ==
  CASE a.c = "fin" -> Fin(-a.n, a.d)
    [] a.c = "pinf" -> NegInf
    [] a.c = "ninf" -> PosInf
    [] OTHER -> NaN

NumSub(a, b) == NumAdd(a, NumNeg(b))

NumMul(a, b) ==
  CASE a.c = "nan" \/ b.c = "nan" -> NaN
    [] a.c = "fin" /\ b.c = "fin" -> Fin(a.n * b.n, a.d * b.d)
    [] OTHER -> IF Sign(a) * Sign(b) = 0 THEN NaN ELSE InfOf(Sign(a) * Sign(b))

NumDiv(a, b) ==
  CASE a.c = "nan" \/ b.c = "nan" -> NaN
    [] a.c = "fin" /\ b.c = "fin" ->
         IF b.n # 0 THEN Fin(a.n * b.d, a.d * b.n)
         ELSE IF a.n = 0 THEN NaN ELSE InfOf(Sign(a))
    [] a.c = "fin" -> Fin(0, 1)
    [] b.c = "fin" -> InfOf(Sign(a) * (IF Sign(b) < 0 THEN -1 ELSE 1))
    [] OTHER -> NaN

NumLess(a, b) ==
  CASE a.c = "nan" \/ b.c = "nan" -> FALSE
    [] a.c = "fin" /\ b.c = "fin" -> a.n * b.d < b.n * a.d
    [] a.c = "ninf" -> b.c # "ninf"
    [] a.c = "pinf" -> FALSE
    [] OTHER -> b.c = "pinf"

\* Math.trunc of a finite number, as an integer
Trunc(a) == Sign(a) * (AbsInt(a.n) \div a.d)

\* ToInt32(v) for the magnitudes the model reaches (no wrap below 2^31)
ToInt32(v) == LET a == ToNumber(v) IN IF a.c = "fin" THEN Trunc(a) ELSE 0

\* a ^ b on two's-complement integers (the bitwise exclusive or of JavaScript)
RECURSIVE BitXor(_, _)
BitXor(a, b) ==
  CASE a = 0 -> b
    [] b = 0 -> a
    [] a = -1 -> -b - 1
    [] b = -1 -> -a - 1
    [] OTHER -> 2 * BitXor(a \div 2, b \div 2) + (IF a % 2 = b % 2 THEN 0 ELSE 1)

\* Math.floor of a finite number
Floor(a) == a.n \div a.d

\* PowInt multiplying where it should raise: x * e
PowIntTimes(x, e) == NumMul(x, Fin(e, 1))

\* x raised to the integer e, by repeated multiplication
RECURSIVE PowInt(_, _)
PowInt(x, e) ==
  IF e = 0 THEN Fin(1, 1)
  ELSE IF e < 0 THEN NumDiv(Fin(1, 1), PowInt(x, -e))
  ELSE NumMul(x, PowInt(x, e - 1))

\* ------------------------------------------------------------ completions
Normal(v) == [kind |-> "normal", val |-> v]
Throw(name) == [kind |-> "throw", val |-> Str(name)]

\* ------------------------------------------------------------ expressions
\* A parsed expression is a tree of records; these build its nodes.
Lit(v) == [op |-> "lit", v |-> v]
Num(i) == Lit(Fin(i, 1))
Id(name) == [op |-> "id", name |-> name]
Bin(f, l, r) == [op |-> "bin", f |-> f, l |-> l, r |-> r]
Cond(t, l, r) == [op |-> "cond", t |-> t, l |-> l, r |-> r]
Call(fn, args) == [op |-> "call", fn |-> fn, args |-> args]
Member(obj, name) == [op |-> "member", obj |-> obj, name |-> name]
ObjLit == [op |-> "objlit"]
ArrLit(elems) == [op |-> "arrlit", elems |-> elems]
\* `return ;` : the function body of an empty formula
NoExpr == [op |-> "none"]

Parsed(ast) == [ok |-> TRUE, ast |-> ast]
SyntaxError == [ok |-> FALSE, ast |-> NoExpr]

\* The formula texts of the model, and how the host parses `return <formula>;`
\* (operator precedence and associativity of JavaScript).
Formulas ==
  { "x", "5", "2 * r", "x + y", "1/x", "1/0", "0/0", "x^2",
    "2 * (x + 1)", "2 * x + 1", "x - r", "Math.abs(x)", "abs(x)", "pow(x, 2)",
    "\"red\"", "x > 0", "x > 0 ? 1 : y", "null", "({})", "[x]",
    "sin", "null.x", "x +", "", "E", "x > 0 ? x : \"low\"",
    "pow(x, r)", "x^r", "\"Error\"", "result" }

Parse(formula) ==
  CASE formula = "x" -> Parsed(Id("x"))
    [] formula = "5" -> Parsed(Num(5))
    [] formula = "2 * r" -> Parsed(Bin("*", Num(2), Id("r")))
    [] formula = "x + y" -> Parsed(Bin("+", Id("x"), Id("y")))
    [] formula = "1/x" -> Parsed(Bin("/", Num(1), Id("x")))
    [] formula = "1/0" -> Parsed(Bin("/", Num(1), Num(0)))
    [] formula = "0/0" -> Parsed(Bin("/", Num(0), Num(0)))
    [] formula = "x^2" -> Parsed(Bin("^", Id("x"), Num(2)))
    [] formula = "2 * (x + 1)" -> Parsed(Bin("*", Num(2), Bin("+", Id("x"), Num(1))))
    [] formula = "2 * x + 1" -> Parsed(Bin("+", Bin("*", Num(2), Id("x")), Num(1)))
    [] formula = "x - r" -> Parsed(Bin("-", Id("x"), Id("r")))
    [] formula = "Math.abs(x)" -> Parsed(Call(Member(Id("Math"), "abs"), <<Id("x")>>))
    [] formula = "abs(x)" -> Parsed(Call(Id("abs"), <<Id("x")>>))
    [] formula = "pow(x, 2)" -> Parsed(Call(Id("pow"), <<Id("x"), Num(2)>>))
    [] formula = "\"red\"" -> Parsed(Lit(Str("red")))
    [] formula = "x > 0" -> Parsed(Bin(">", Id("x"), Num(0)))
    [] formula = "x > 0 ? 1 : y" -> Parsed(Cond(Bin(">", Id("x"), Num(0)), Num(1), Id("y")))
    [] formula = "null" -> Parsed(Lit(Null))
    [] formula = "({})" -> Parsed(ObjLit)
    [] formula = "[x]" -> Parsed(ArrLit(<<Id("x")>>))
    [] formula = "sin" -> Parsed(Id("sin"))
    [] formula = "null.x" -> Parsed(Member(Lit(Null), "x"))
    [] formula = "" -> Parsed(NoExpr)
    [] formula = "E" -> Parsed(Id("E"))
    [] formula = "x > 0 ? x : \"low\"" ->
         Parsed(Cond(Bin(">", Id("x"), Num(0)), Id("x"), Lit(Str("low"))))
    [] formula = "pow(x, r)" -> Parsed(Call(Id("pow"), <<Id("x"), Id("r")>>))
    [] formula = "\"Error\"" -> Parsed(Lit(Str("Error")))
    [] formula = "result" -> Parsed(Id("result"))
    [] formula = "x^r" -> Parsed(Bin("^", Id("x"), Id("r")))
    [] OTHER -> SyntaxError

\* The names the function body destructures from Math.
MathNames ==
  { "sin", "cos", "tan", "asin", "acos", "atan", "PI", "E", "pow", "sqrt",
    "abs", "log", "exp", "floor", "ceil", "round", "min", "max" }

\* The two constants among them; the other names are functions.
MathConstants == {"PI", "E"}

\* Math.PI and Math.E are doubles, hence finite rationals; the model keeps a
\* close rational with small terms (only their being finite numbers is used).
MathProperty(name) ==
  CASE name = "PI" -> Fin(355, 113)
    [] name = "E" -> Fin(193, 71)
    [] name \in MathNames -> Other("function", name)
    [] OTHER -> Undefined

\* The strings of the model that are identifiers a parameter list accepts.
Identifiers == {"x", "y", "r", "t", "result"} \cup MathNames

\* The global names the formulas of the model refer to.
GlobalValue(name) ==
  CASE name = "Math" -> Other("object", "Math")
    [] name = "Infinity" -> PosInf
    [] name = "NaN" -> NaN
    [] name = "undefined" -> Undefined
Globals == {"Math", "Infinity", "NaN", "undefined"}

\* ------------------------------------------------------------ evaluation
\* Math.<name>(args) for the functions whose value on rationals is exact; the
\* formulas of the model call no other.
ApplyMath(name, a) ==
  LET x == ToNumber(IF Len(a) >= 1 THEN a[1] ELSE Undefined)
      y == ToNumber(IF Len(a) >= 2 THEN a[2] ELSE Undefined)
  IN  CASE name = "abs" -> IF x.c = "fin" THEN Fin(AbsInt(x.n), x.d)
                           ELSE IF x.c = "nan" THEN NaN ELSE PosInf
        [] name = "floor" -> IF x.c = "fin" THEN Fin(Floor(x), 1) ELSE x
        [] name = "ceil" -> IF x.c = "fin" THEN Fin(-Floor(NumNeg(x)), 1) ELSE x
        [] name = "pow" -> IF x.c = "fin" /\ y.c = "fin" /\ y.d = 1
                           THEN PowInt(x, y.n) ELSE NaN
        [] name = "min" -> IF x.c = "nan" \/ y.c = "nan" THEN NaN
                           ELSE IF NumLess(y, x) THEN y ELSE x
        [] name = "max" -> IF x.c = "nan" \/ y.c = "nan" THEN NaN
                           ELSE IF NumLess(x, y) THEN y ELSE x

\* l <f> r on two values
BinaryOp(f, l, r) ==
  CASE f = "+" -> IF l.k = "string" /\ r.k = "string" THEN Str(l.c \o r.c)
                  ELSE NumAdd(ToNumber(l), ToNumber(r))
    [] f = "-" -> NumSub(ToNumber(l), ToNumber(r))
    [] f = "*" -> NumMul(ToNumber(l), ToNumber(r))
    [] f = "/" -> NumDiv(ToNumber(l), ToNumber(r))
    [] f = "^" -> Fin(BitXor(ToInt32(l), ToInt32(r)), 1)
    [] f = ">" -> Bool(NumLess(ToNumber(r), ToNumber(l)))

\* ToBoolean(v)
ToBoolean(v) ==
  CASE v.k = "number" -> ~(v.c = "nan" \/ (v.c = "fin" /\ v.n = 0))
    [] v.k = "string" -> v.c # ""
    [] v.k = "boolean" -> v.c = "true"
    [] v.k \in {"undefined", "null"} -> FALSE
    [] OTHER -> TRUE

\* obj.name
GetMember(obj, name) ==
  CASE obj.k \in {"undefined", "null"} -> Throw("TypeError")
    [] obj.k = "object" /\ obj.c = "Math" -> Normal(MathProperty(name))
    [] OTHER -> Normal(Undefined)

\* Resolve with an unknown name reading as undefined instead of throwing
ResolveLenient(name, params, args) ==
  IF \E j \in 1..Len(params) : params[j] = name
  THEN Normal(args[CHOOSE j \in 1..Len(params) : params[j] = name])
  ELSE IF name \in MathNames THEN Normal(MathProperty(name))
  ELSE IF name \in Globals THEN Normal(GlobalValue(name))
  ELSE Normal(Undefined)

\* An identifier resolves to a parameter, else to a name destructured from
\* Math in the function body, else to a global; otherwise the reference throws.
Resolve(name, params, args) ==
  IF \E j \in 1..Len(params) : params[j] = name
  THEN Normal(args[CHOOSE j \in 1..Len(params) : params[j] = name])
  ELSE IF name \in MathNames THEN Normal(MathProperty(name))
  ELSE IF name \in Globals THEN Normal(GlobalValue(name))
  ELSE Throw("ReferenceError")

RECURSIVE Eval(_, _, _)
RECURSIVE EvalList(_, _, _)
\* the values of a list of expressions, left to right, or the first throw
EvalList(es, params, args) ==
  IF es = <<>> THEN Normal(<<>>)
  ELSE LET h == Eval(Head(es), params, args)
       IN  IF h.kind = "throw" THEN h
           ELSE LET t == EvalList(Tail(es), params, args)
                IN  IF t.kind = "throw" THEN t ELSE Normal(<<h.val>> \o t.val)

\* the completion of evaluating expression e with params bound to args
Eval(e, params, args) ==
  CASE e.op = "lit" -> Normal(e.v)
    [] e.op = "none" -> Normal(Undefined)
    [] e.op = "id" -> Resolve(e.name, params, args)
    [] e.op = "objlit" -> Normal(Other("object", "{}"))
    [] e.op = "arrlit" ->
         LET es == EvalList(e.elems, params, args)
         IN  IF es.kind = "throw" THEN es ELSE Normal(Other("array", "[]"))
    [] e.op = "bin" ->
         LET l == Eval(e.l, params, args)
         IN  IF l.kind = "throw" THEN l
             ELSE LET r == Eval(e.r, params, args)
                  IN  IF r.kind = "throw" THEN r
                      ELSE Normal(BinaryOp(e.f, l.val, r.val))
    [] e.op = "cond" ->
         LET t == Eval(e.t, params, args)
         IN  IF t.kind = "throw" THEN t
             ELSE IF ToBoolean(t.val) THEN Eval(e.l, params, args)
             ELSE Eval(e.r, params, args)
    [] e.op = "member" ->
         LET o == Eval(e.obj, params, args)
         IN  IF o.kind = "throw" THEN o ELSE GetMember(o.val, e.name)
    [] e.op = "call" ->
         LET f == Eval(e.fn, params, args)
         IN  IF f.kind = "throw" THEN f
             ELSE LET a == EvalList(e.args, params, args)
                  IN  IF a.kind = "throw" THEN a
                      ELSE IF f.val.k # "function" THEN Throw("TypeError")
                      ELSE Normal(ApplyMath(f.val.c, a.val))

\* ------------------------------------------------------------ bindings
\* An object Record<string, number> is the sequence of its entries
\* [key, val] in property order, with no key twice.
Entry(key, val) == [key |-> key, val |-> val]

HasKey(obj, key) == \E j \in 1..Len(obj) : obj[j].key = key

\* obj[key]
Get(obj, key) ==
  IF HasKey(obj, key)
  THEN obj[CHOOSE j \in 1..Len(obj) : obj[j].key = key].val
  ELSE Undefined

\* Object.keys(obj)
ObjectKeys(obj) == [j \in 1..Len(obj) |-> obj[j].key]

\* SpreadWith in the other order, { [key]: v, ...obj }: an entry of obj wins
SpreadCallerWins(obj, key, v) ==
  IF HasKey(obj, key) THEN obj ELSE <<Entry(key, v)>> \o obj

\* { ...obj, [key]: v } : a fresh object
SpreadWith(obj, key, v) ==
  IF HasKey(obj, key)
  THEN [j \in 1..Len(obj) |-> IF obj[j].key = key THEN Entry(key, v) ELSE obj[j]]
  ELSE Append(obj, Entry(key, v))

\* ------------------------------------------------------------ safeEvaluate
\* new Function(...keys, mathFormula): a SyntaxError when a key is no
\* identifier, when a key is also declared by the body's const { ... } = Math,
\* or when `return <formula>;` does not parse.
NewFunction(keys, formula) ==
  IF \/ \E j \in 1..Len(keys) : keys[j] \notin Identifiers
     \/ \E j \in 1..Len(keys) : keys[j] \in MathNames
     \/ ~Parse(formula).ok
  THEN Throw("SyntaxError")
  ELSE Normal([params |-> keys, body |-> Parse(formula).ast])

\* func(...args)
CallFunction(func, args) == Eval(func.body, func.params, args)

\* Classify with the non-finite test reduced to isNaN(result)
ClassifyOnlyNaN(result) ==
  IF TypeOf(result) = "object" /\ result # Null THEN Normal(Str("Error"))
  ELSE IF TypeOf(result) = "number" /\ IsNaN(result) THEN Normal(Str("Error"))
  ELSE Normal(result)

\* Classify returning only numbers: every other result becomes "Error"
ClassifyNumbersOnly(result) ==
  IF TypeOf(result) # "number" THEN Normal(Str("Error"))
  ELSE IF ~IsFinite(result) \/ IsNaN(result) THEN Normal(Str("Error"))
  ELSE Normal(result)

\* Classify without the `result !== null` exemption
ClassifyNullIsObject(result) ==
  IF TypeOf(result) = "object" THEN Normal(Str("Error"))
  ELSE IF TypeOf(result) = "number" /\ (~IsFinite(result) \/ IsNaN(result))
  THEN Normal(Str("Error"))
  ELSE Normal(result)

\* lines 16-19: the classification of the raw result
Classify(result) ==
  IF TypeOf(result) = "object" /\ result # Null THEN Normal(Str("Error"))
  ELSE IF TypeOf(result) = "number" /\ (~IsFinite(result) \/ IsNaN(result))
  THEN Normal(Str("Error"))
  ELSE Normal(result)

\* lines 3-14: keys, args, func and the completion of func(...args)
RawResult(formula, values) ==
  LET keys == ObjectKeys(values)
      args == [j \in 1..Len(keys) |-> Get(values, keys[j])]
      func == NewFunction(keys, formula)
  IN  IF func.kind = "throw" THEN func ELSE CallFunction(func.val, args)

\* lines 3-19: the body of the try block
TryBlock(formula, values) ==
  LET result == RawResult(formula, values)
  IN  IF result.kind = "throw" THEN result ELSE Classify(result.val)

\* lines 20-22: catch (e) { return "Error"; }
Catch(completion) ==
  IF completion.kind = "throw" THEN Normal(Str("Error")) ELSE completion

\* safeEvaluate with new Function(...) placed before the try block
safeEvaluateBuildOutsideTry(formula, values) ==
  IF NewFunction(ObjectKeys(values), formula).kind = "throw"
  THEN NewFunction(ObjectKeys(values), formula)
  ELSE Catch(TryBlock(formula, values))

\* safeEvaluate without the try/catch
safeEvaluateNoCatch(formula, values) == TryBlock(formula, values)

safeEvaluate(formula, values) == Catch(TryBlock(formula, values))

\* ------------------------------------------------------------ generateGraphPoints
\* SampleX with maxX used where range belongs: minX + (i / steps) * maxX
SampleXByMax(minXv, rangev, iv, stepsv) ==
  NumAdd(minXv, NumMul(NumDiv(Fin(iv, 1), Fin(stepsv, 1)), NumAdd(rangev, minXv)))

\* line 37: x = minX + (i / steps) * range
SampleX(minXv, rangev, iv, stepsv) ==
  NumAdd(minXv, NumMul(NumDiv(Fin(iv, 1), Fin(stepsv, 1)), rangev))

\* MakeTempValues writing into the caller's object: values[variableKey] = x
MakeTempValuesInPlace(vals, key, xv) ==
  [caller |-> SpreadWith(vals, key, xv), temp |-> SpreadWith(vals, key, xv)]

\* line 39: tempValues = { ...values, [variableKey]: x }. The result names the
\* contents of both objects after the statement: the caller's and the fresh one.
MakeTempValues(vals, key, xv) ==
  [caller |-> vals, temp |-> SpreadWith(vals, key, xv)]

\* LoopCondition with the last index left out: i < steps
LoopConditionStrict(iv, stepsv) == iv < stepsv

\* line 36: the loop condition i <= steps
LoopCondition(iv, stepsv) == iv <= stepsv

\* IsPlottable testing only for the marker: y !== "Error"
IsPlottableNotError(yv) == yv # Str("Error")

\* line 42: typeof y === 'number' && isFinite(y)
IsPlottable(yv) == TypeOf(yv) = "number" /\ IsFinite(yv)

\* FreshPoints with the array kept at module level and reused by every call
FreshPointsShared(old) == old

\* line 33: const points = [] : a new empty array at every call, whatever an
\* earlier call left
FreshPoints(old) == <<>>

\* PushPoint adding at the front: points.unshift({ x, y })
PushPointFront(pts, pt) == <<pt>> \o pts

\* line 43: points.push({ x, y })
PushPoint(pts, pt) == Append(pts, pt)

\* ------------------------------------------------------------ inputs
BindKeys == {"x", "r", "E", "2x"}
BindVals == {Fin(1, 1), Fin(3, 1), NaN}
PairKeys == {"x", "r"}

\* every object of one entry with a key of BindKeys, and of two entries with
\* the keys of PairKeys in either order
Bindings ==
  {<<>>}
  \cup {<<Entry(k1, v1)>> : k1 \in BindKeys, v1 \in BindVals}
  \cup {b \in {<<Entry(k1, v1), Entry(k2, v2)>> :
                  k1 \in PairKeys, k2 \in PairKeys, v1 \in BindVals, v2 \in BindVals} :
          b[1].key # b[2].key}

\* the bindings the sampler is called with
GraphBindings ==
  { <<>>, <<Entry("r", Fin(3, 1))>>,
    <<Entry("x", Fin(1, 1)), Entry("r", Fin(3, 1))>>,
    <<Entry("E", Fin(3, 1))>> }

\* the formulas the sampler is called with
GraphFormulas ==
  { "x", "5", "2 * r", "x + y", "1/x", "1/0", "x^2", "2 * (x + 1)", "x - r",
    "\"red\"", "x > 0", "x > 0 ? 1 : y", "null.x", "x +",
    "x > 0 ? x : \"low\"", "pow(x, 2)" }

VariableKeys == {"x", "r"}
Domain == {Fin(a, 1) : a \in -MaxAbsX..MaxAbsX}

\* ------------------------------------------------------------ state
VARIABLES
  pc,           \* "idle", "evaluated", "loop", "done", "thrown"
  formula,      \* the formula argument of the running or last call
  values,       \* the contents of the caller's bindings object
  ret,          \* the completion of the last direct safeEvaluate call
  variableKey, minX, maxX, steps,   \* the other arguments of generateGraphPoints
  range, i, points, tempValues,     \* its locals
  values0,      \* history: the caller's bindings as they were at the call
  log,          \* history: one record per evaluator call of the pass
  round,        \* history: 1, or 2 once the same sampling call was made again
  firstPoints   \* history: the series the first of the two calls returned

\* the components that call the two functions
VARIABLES
  render,       \* Visualizer: the props of the last render and its processedSvg
  calc,         \* App: formula, inputs, result and the ghost refs
  editor,       \* App: the formula editor, its sync timer and sync requests
  gen,          \* App: query, isLoading, error, formula and the requests in flight
  graph,        \* Visualizer: the graph's domain, its drag state and pan mode
  svgView       \* Visualizer: svgTransform, its drag state and pan mode

uiVars == <<render, calc, editor, gen, graph, svgView>>

vars == <<pc, formula, values, ret, variableKey, minX, maxX, steps,
          range, i, points, tempValues, values0, log, round, firstPoints,
          uiVars>>

mathVars == <<pc, formula, values, ret, variableKey, minX, maxX, steps,
              range, i, points, tempValues, values0, log, round, firstPoints>>

\* App as mounted: lines 100-102 and 113-115, with the history of the model:
\* the inputs before the last event, the event, and whether it recorded
NoFormula == "(null)"
AppMounted ==
  [formula |-> NoFormula, inputs |-> <<>>, result |-> Null,
   prevInputs |-> <<>>, prevResult |-> Null, showGhost |-> FALSE,
   inputsBefore |-> <<>>, lastEvent |-> "mount", recorded |-> FALSE]

\* Visualizer as mounted for a graph: lines 18-25, over the default domain of
\* lines 313-314. The x values of the graph are held in units of 1e-6. From
\* moves on comes the history of the model: the domain and the zoom factor
\* of the last action.
GraphMounted ==
  [mounted |-> FALSE,
   default |-> [min |-> Fin(0, 1), max |-> Fin(2, 1)],
   customDomain |-> Null,
   isGraphDragging |-> FALSE,
   graphDragStartRef |-> Null,
   isPanModeEnabled |-> FALSE,
   moves |-> 0,
   lastAction |-> "none",
   before |-> [min |-> Fin(0, 1), max |-> Fin(2, 1)],
   factor |-> Fin(1, 1)]

\* A scale k of the SVG view is a product of powers of 2, 3, 5 and 11, the
\* primes of the zoom factors 1.2, 0.8, 1.1 and 0.9 and of the limits 0.1 and
\* 10; it is held as the exponents of the four primes.
Scale(e2, e3, e5, e11) == [e2 |-> e2, e3 |-> e3, e5 |-> e5, e11 |-> e11]

\* line 23: { x: 0, y: 0, k: 1 }
SvgRest == [x |-> 0, y |-> 0, k |-> Scale(0, 0, 0, 0)]

\* Visualizer as mounted for an SVG: lines 23-26. zooms and wheels count the
\* zoom clicks and the wheel events since the view was last put at rest.
SvgMounted ==
  [svgTransform |-> SvgRest,
   isSvgDragging |-> FALSE,
   isPanModeEnabled |-> FALSE,
   svgDragStartRef |-> Null,
   zooms |-> 0,
   wheels |-> 0]

\* App as mounted: lines 93-100. A request is named by the number of its
\* submission; formula and error hold the number of the request they came
\* from, 0 for null. requests are the generateFormula calls in flight.
GenerateMounted ==
  [query |-> <<>>, isLoading |-> FALSE, error |-> 0, formula |-> 0,
   requests |-> {}, submitted |-> 0]

\* the texts of the two editor fields when editing starts (lines 275-279)
FormulaText == <<"f">>

\* App as mounted: lines 118-130. timers are the timeouts that are set and
\* have not run or been cleared, requests the syncFormula calls in flight;
\* the rest from edits on is the history of the model.
EditorMounted ==
  [isEditing |-> FALSE,
   editState |-> [latex |-> <<>>, js |-> <<>>],
   activeEditField |-> "null",
   syncTimeoutRef |-> 0,
   isSyncing |-> FALSE,
   timers |-> {},
   requests |-> {},
   edits |-> 0,
   sinceEdit |-> 0,
   superseded |-> {},
   issued |-> {},
   lastEvent |-> "other",
   lastReturn |-> [wrote |-> FALSE, field |-> "null", wasEditing |-> FALSE,
                   active |-> "null"]]

\* Visualizer before its first render with an SVG template
NotRendered ==
  [svgTemplate |-> <<>>, values |-> <<>>, result |-> Fin(0, 1),
   isGhost |-> FALSE, processedSvg |-> <<>>, rendered |-> FALSE]

graphVars == <<variableKey, minX, maxX, steps, range, i, points, tempValues,
               values0, log>>

Init ==
  /\ pc = "idle"
  /\ formula = ""
  /\ values = <<>>
  /\ ret = Normal(Undefined)
  /\ variableKey = "x"
  /\ minX = Fin(0, 1)
  /\ maxX = Fin(0, 1)
  /\ steps = 0
  /\ range = Fin(0, 1)
  /\ i = 0
  /\ points = <<>>
  /\ tempValues = <<>>
  /\ values0 = <<>>
  /\ log = <<>>
  /\ round = 1
  /\ firstPoints = <<>>
  /\ render = NotRendered
  /\ calc = AppMounted
  /\ editor = EditorMounted
  /\ gen = GenerateMounted
  /\ graph = GraphMounted
  /\ svgView = SvgMounted

\* a caller evaluates one expression: safeEvaluate(f, v)
CallSafeEvaluate(f, v) ==
  /\ pc = "idle"
  /\ pc' = "evaluated"
  /\ formula' = f
  /\ values' = v
  /\ ret' = safeEvaluate(f, v)
  /\ variableKey' = "x"
  /\ minX' = Fin(0, 1)
  /\ maxX' = Fin(0, 1)
  /\ steps' = 0
  /\ range' = Fin(0, 1)
  /\ i' = 0
  /\ points' = <<>>
  /\ tempValues' = <<>>
  /\ values0' = v
  /\ log' = <<>>
  /\ UNCHANGED <<round, firstPoints, uiVars>>

\* lines 25-36: the arguments are bound and the locals initialised
EnterGenerateGraphPoints(f, v, key, lo, hi, s) ==
  /\ pc' = "loop"
  /\ formula' = f
  /\ values' = v
  /\ values0' = v
  /\ variableKey' = key
  /\ minX' = lo
  /\ maxX' = hi
  /\ steps' = s
  /\ points' = FreshPoints(points)
  /\ range' = NumSub(hi, lo)
  /\ i' = 0
  /\ tempValues' = <<>>
  /\ log' = <<>>

\* lines 25-36: generateGraphPoints(f, v, key, lo, hi, s) is entered
CallGenerateGraphPoints(f, v, key, lo, hi, s) ==
  /\ pc = "idle"
  /\ EnterGenerateGraphPoints(f, v, key, lo, hi, s)
  /\ ret' = Normal(Undefined)
  /\ UNCHANGED <<round, firstPoints, uiVars>>

\* lines 36-45: one iteration of the loop
LoopStep ==
  /\ pc = "loop"
  /\ LoopCondition(i, steps)
  /\ LET x == SampleX(minX, range, i, steps)
         objs == MakeTempValues(values, variableKey, x)
         y == safeEvaluate(formula, objs.temp)
     IN  /\ values' = objs.caller
         /\ tempValues' = objs.temp
         /\ log' = Append(log, [i |-> i, x |-> x, arg |-> objs.temp, y |-> y])
         /\ IF y.kind = "throw"
            THEN /\ pc' = "thrown"
                 /\ UNCHANGED <<points, i>>
            ELSE /\ pc' = "loop"
                 /\ points' = IF IsPlottable(y.val)
                              THEN PushPoint(points, [x |-> x, y |-> y.val])
                              ELSE points
                 /\ i' = i + 1
  /\ UNCHANGED <<formula, ret, variableKey, minX, maxX, steps, range, values0,
                 round, firstPoints, uiVars>>

\* line 46: return points
Return ==
  /\ pc = "loop"
  /\ ~LoopCondition(i, steps)
  /\ pc' = "done"
  /\ UNCHANGED <<formula, values, ret, graphVars, round, firstPoints, uiVars>>

\* a caller of the module calls one of its two functions, with any arguments
CallerEvaluates ==
  /\ pc = "idle"
  /\ \E f \in Formulas, v \in Bindings : CallSafeEvaluate(f, v)

CallerSamples ==
  /\ pc = "idle"
  /\ \E f \in GraphFormulas, v \in GraphBindings, key \in VariableKeys,
        lo \in Domain, hi \in Domain, s \in 0..MaxSteps :
       CallGenerateGraphPoints(f, v, key, lo, hi, s)

Next ==
  \/ CallerEvaluates
  \/ CallerSamples
  \/ LoopStep
  \/ Return

Spec == Init /\ [][Next]_vars

\* between two sampling calls the caller evaluates the formula directly
\* (the result effect of App calls safeEvaluate with the inputs the graph uses)
EvaluateBetween ==
  /\ pc = "done"
  /\ round = 1
  /\ ret' = safeEvaluate(formula, values)
  /\ UNCHANGED <<pc, formula, values, graphVars, round, firstPoints, uiVars>>

\* the caller makes the sampling call it made before once more, with the
\* same arguments (a re-render of the graph with unchanged inputs)
CallAgain ==
  /\ pc = "done"
  /\ round = 1
  /\ EnterGenerateGraphPoints(formula, values, variableKey, minX, maxX, steps)
  /\ round' = 2
  /\ firstPoints' = points
  /\ ret' = Normal(Undefined)
  /\ UNCHANGED uiVars

NextRepeat ==
  \/ Next
  \/ EvaluateBetween
  \/ CallAgain

\* the two functions with a sampling call repeated
SpecRepeat == Init /\ [][NextRepeat]_vars

\* ------------------------------------------------------------ SVG templates
\* A text is the sequence of its characters. Spelling gives the characters of
\* the strings the evaluator knows as formulas or returns as values.
Spelling(text) ==
  CASE text = "x" -> <<"x">>
    [] text = "5" -> <<"5">>
    [] text = "2 * r" -> <<"2", " ", "*", " ", "r">>
    [] text = "x + y" -> <<"x", " ", "+", " ", "y">>
    [] text = "1/x" -> <<"1", "/", "x">>
    [] text = "1/0" -> <<"1", "/", "0">>
    [] text = "x^2" -> <<"x", "^", "2">>
    [] text = "\"red\"" -> <<"\"", "r", "e", "d", "\"">>
    [] text = "x > 0" -> <<"x", " ", ">", " ", "0">>
    [] text = "x > 0 ? 1 : y" -> <<"x", " ", ">", " ", "0", " ", "?", " ", "1", " ", ":", " ", "y">>
    [] text = "null" -> <<"n", "u", "l", "l">>
    [] text = "x +" -> <<"x", " ", "+">>
    [] text = "" -> <<>>
    [] text = "E" -> <<"E">>
    [] text = "result" -> <<"r", "e", "s", "u", "l", "t">>
    [] text = "Error" -> <<"E", "r", "r", "o", "r">>
    [] text = "red" -> <<"r", "e", "d">>
    [] text = "low" -> <<"l", "o", "w">>
    [] text = "x > 0 ? x : \"low\"" -> <<"x", " ", ">", " ", "0", " ", "?", " ", "x", " ", ":", " ", "\"", "l", "o", "w", "\"">>

SpelledTexts ==
  { "x", "5", "2 * r", "x + y", "1/x", "1/0",
    "x^2", "\"red\"", "x > 0", "x > 0 ? 1 : y", "null", "x +",
    "", "E", "result", "Error", "red", "low",
    "x > 0 ? x : \"low\"" }

\* the string that has these characters; a text that is spelled nowhere is
\* no formula of Parse and is handed over as "?"
TextOf(chars) ==
  IF \E t \in SpelledTexts : Spelling(t) = chars
  THEN CHOOSE t \in SpelledTexts : Spelling(t) = chars
  ELSE "?"

\* formulaData.svgTemplate: the templates the model renders
Templates ==
  { <<"r", "=", "{", "{", "r", "e", "s", "u", "l", "t", "}", "}">>,
    <<"w", "=", "{", "{", " ", "2", " ", "*", " ", "r", " ", "}", "}">>,
    <<"{", "{", "x", " ", "&", "g", "t", ";", " ", "0", " ", "?", " ", "1", " ", ":", " ", "y", "}", "}">>,
    <<"f", "=", "{", "{", "\"", "r", "e", "d", "\"", "}", "}">>,
    <<"{", "{", "x", " ", "+", "}", "}">>,
    <<"{", "{", "x", " ", ">", " ", "0", "}", "}">>,
    <<"{", "{", "1", "/", "x", "}", "}">>,
    <<"a", "{", "{", "x", "}", "}", "b", "{", "{", "r", "e", "s", "u", "l", "t", "}", "}">>,
    <<"{", "{", "n", "u", "l", "l", "}", "}">>,
    <<"{", "{", "E", "}", "}">>,
    <<"<", "s", "v", "g", "/", ">">>,
    <<"{", "{", " ", "x", " ", "}">>,
    <<"{", "{", "}", "}">>,
    <<"{", "{", "\n", "x", "}", "}">>,
    <<"{", "{", "1", "/", "0", "}", "}">>,
    <<"{", "{", " ", "r", "e", "s", "u", "l", "t", " ", "}", "}">>,
    <<"{", "{", "x", " ", ">", " ", "0", " ", "?", " ", "x", " ", ":", " ", "\"", "l", "o", "w", "\"", "}", "}">>,
    <<"<", "s", "v", "g", ">", "{", "{", "x", "}", "}", "<", "/", "s", "v", "g", ">">>,
    <<"<", "a", "n", "i", "m", "a", "t", "e", " ", "a", "=", "\"", "{", "{", "x", "}", "}", "\"", "/", ">">>,
    <<"<", "S", "V", "G", ">", "{", "{", "r", "e", "s", "u", "l", "t", "}", "}", "<", "/", "S", "V", "G", ">">> }

\* ---- String.prototype methods on sequences of characters
Whitespace == {" ", "\n", "\t"}
\* the characters the `.` of a regular expression does not match
LineTerminators == {"\n", "\r"}

RECURSIVE TrimStart(_)
TrimStart(s) ==
  IF s # <<>> /\ Head(s) \in Whitespace THEN TrimStart(Tail(s)) ELSE s

RECURSIVE TrimEnd(_)
TrimEnd(s) ==
  IF s # <<>> /\ s[Len(s)] \in Whitespace
  THEN TrimEnd(SubSeq(s, 1, Len(s) - 1))
  ELSE s

\* s.trim()
Trim(s) == TrimEnd(TrimStart(s))

\* pat occurs in s at position k
StartsWithAt(s, k, pat) ==
  /\ k >= 1
  /\ k + Len(pat) - 1 <= Len(s)
  /\ SubSeq(s, k, k + Len(pat) - 1) = pat

\* the first position >= from at which pat occurs in s, or 0
FirstAt(s, pat, from) ==
  LET at == {k \in from..Len(s) : StartsWithAt(s, k, pat)}
  IN  IF at = {} THEN 0 ELSE CHOOSE k \in at : \A j \in at : k <= j

\* s.replace(/pat/g, rep) for a literal pat
RECURSIVE ReplaceAllFrom(_, _, _, _)
ReplaceAllFrom(s, k, pat, rep) ==
  IF k > Len(s) THEN <<>>
  ELSE IF StartsWithAt(s, k, pat)
  THEN rep \o ReplaceAllFrom(s, k + Len(pat), pat, rep)
  ELSE <<s[k]>> \o ReplaceAllFrom(s, k + 1, pat, rep)

ReplaceAll(s, pat, rep) == ReplaceAllFrom(s, 1, pat, rep)

\* ---- Number to text
DigitChars == <<"0", "1", "2", "3", "4", "5", "6", "7", "8", "9">>

RECURSIVE DigitsOf(_)
DigitsOf(n) ==
  IF n < 10 THEN <<DigitChars[n + 1]>>
  ELSE DigitsOf(n \div 10) \o <<DigitChars[(n % 10) + 1]>>

RECURSIVE StripZeros(_)
StripZeros(s) ==
  IF s # <<>> /\ s[Len(s)] = "0" THEN StripZeros(SubSeq(s, 1, Len(s) - 1)) ELSE s

\* String(v) for a number v; of the finite numbers only the integers
NumberToString(v) ==
  CASE v.c = "nan" -> <<"N", "a", "N">>
    [] v.c = "pinf" -> <<"I", "n", "f", "i", "n", "i", "t", "y">>
    [] v.c = "ninf" -> <<"-", "I", "n", "f", "i", "n", "i", "t", "y">>
    [] v.c = "fin" /\ v.d = 1 ->
         (IF v.n < 0 THEN <<"-">> ELSE <<>>) \o DigitsOf(AbsInt(v.n))

\* String(parseFloat(val.toFixed(4))) for a finite number val: rounded to 4
\* decimals, half away from zero, and written without trailing zeros
FormatFixed4(val) ==
  LET scaled == (2 * AbsInt(val.n) * 10000 + val.d) \div (2 * val.d)
      whole == scaled \div 10000
      frac == scaled % 10000
      fracChars == StripZeros(<<DigitChars[(frac \div 1000) + 1],
                                DigitChars[((frac \div 100) % 10) + 1],
                                DigitChars[((frac \div 10) % 10) + 1],
                                DigitChars[(frac % 10) + 1]>>)
  IN  (IF val.n < 0 /\ scaled # 0 THEN <<"-">> ELSE <<>>)
      \o DigitsOf(whole)
      \o (IF fracChars = <<>> THEN <<>> ELSE <<".">> \o fracChars)

\* String(result) for the result prop: number | string
StringOf(v) == IF v.k = "string" THEN Spelling(v.c) ELSE NumberToString(v)

\* ---- processedSvg
OpenBraces == <<"{", "{">>
CloseBraces == <<"}", "}">>
ResultPlaceholder == <<"{", "{", "r", "e", "s", "u", "l", "t", "}", "}">>

\* /\{\{(.*?)\}\}/ tried at position k of s: the position of the closing
\* braces of the shortest match that starts at k, or 0 when none starts there
MatchEnd(s, k) ==
  IF ~StartsWithAt(s, k, OpenBraces) THEN 0
  ELSE LET ends == {m \in (k + 2)..Len(s) :
                      /\ StartsWithAt(s, m, CloseBraces)
                      /\ \A j \in (k + 2)..(m - 1) : s[j] \notin LineTerminators}
       IN  IF ends = {} THEN 0 ELSE CHOOSE m \in ends : \A j \in ends : m <= j

\* Replacer leaving a failed expression as written: `match` when val is "Error"
ReplacerKeepsFailures(match, expression, vals) ==
  LET cleanExpr == Trim(expression)
      decodedExpr == ReplaceAll(ReplaceAll(cleanExpr, <<"&", "l", "t", ";">>, <<"<">>),
                                <<"&", "g", "t", ";">>, <<">">>)
      val == safeEvaluate(TextOf(decodedExpr), vals).val
  IN  IF TypeOf(val) = "number" /\ IsFinite(val) THEN FormatFixed4(val)
      ELSE IF TypeOf(val) = "string" /\ val # Str("Error") THEN Spelling(val.c)
      ELSE match

\* lines 184-191: the callback of the first replace
Replacer(match, expression, vals) ==
  LET cleanExpr == Trim(expression)
      decodedExpr == ReplaceAll(ReplaceAll(cleanExpr, <<"&", "l", "t", ";">>, <<"<">>),
                                <<"&", "g", "t", ";">>, <<">">>)
      val == safeEvaluate(TextOf(decodedExpr), vals).val
  IN  IF TypeOf(val) = "number" /\ IsFinite(val) THEN FormatFixed4(val)
      ELSE IF TypeOf(val) = "string" THEN Spelling(val.c)
      ELSE match

\* line 184: svg.replace(/\{\{(.*?)\}\}/g, replacer), from position k on
RECURSIVE ReplaceExpressionsFrom(_, _, _)
ReplaceExpressionsFrom(s, k, vals) ==
  IF k > Len(s) THEN <<>>
  ELSE LET m == MatchEnd(s, k)
       IN  IF m = 0
           THEN <<s[k]>> \o ReplaceExpressionsFrom(s, k + 1, vals)
           ELSE Replacer(SubSeq(s, k, m + 1), SubSeq(s, k + 2, m - 1), vals)
                \o ReplaceExpressionsFrom(s, m + 2, vals)

ReplaceExpressions(s, vals) == ReplaceExpressionsFrom(s, 1, vals)

\* line 193: svg.replace(/{{result}}/g, String(result))
ReplaceResult(s, result) == ReplaceAll(s, ResultPlaceholder, StringOf(result))

\* lines 181-193: the template after the two substitution passes
Substituted(svgTemplate, vals, result) ==
  ReplaceResult(ReplaceExpressions(svgTemplate, vals), result)


\* ---- lines 195-235: the style sheet and the ghost's still picture
\* the position just after a match of parts[1] [\s\S]*? parts[2] ... that
\* continues at or after position from, or 0
RECURSIVE LazyEnd(_, _, _)
LazyEnd(s, parts, from) ==
  IF parts = <<>> THEN from
  ELSE LET k == FirstAt(s, Head(parts), from)
       IN  IF k = 0 THEN 0 ELSE LazyEnd(s, Tail(parts), k + Len(Head(parts)))

\* s.replace(/parts[1][\s\S]*?parts[2].../g, ''), from position k on
RECURSIVE RemoveLazyFrom(_, _, _)
RemoveLazyFrom(s, parts, k) ==
  IF k > Len(s) THEN <<>>
  ELSE LET e == IF StartsWithAt(s, k, Head(parts))
                THEN LazyEnd(s, Tail(parts), k + Len(Head(parts)))
                ELSE 0
       IN  IF e = 0
           THEN <<s[k]>> \o RemoveLazyFrom(s, parts, k + 1)
           ELSE RemoveLazyFrom(s, parts, e)

RemoveLazy(s, parts) == RemoveLazyFrom(s, parts, 1)

Animate == <<"<", "a", "n", "i", "m", "a", "t", "e">>
AnimateMotion == <<"<", "a", "n", "i", "m", "a", "t", "e", "M", "o", "t", "i", "o", "n">>
AnimateTransform == <<"<", "a", "n", "i", "m", "a", "t", "e", "T", "r", "a", "n", "s", "f", "o", "r", "m">>
SelfClose == <<"/", ">">>
TagClose == <<">">>
AnimateEnd == <<"<", "/", "a", "n", "i", "m", "a", "t", "e", ">">>
AnimateMotionEnd == <<"<", "/", "a", "n", "i", "m", "a", "t", "e", "M", "o", "t", "i", "o", "n", ">">>
SvgEnd == <<"<", "/", "s", "v", "g", ">">>

\* lines 224-228: the five replaces that take the animations out
StripAnimations(s) ==
  RemoveLazy(
    RemoveLazy(
      RemoveLazy(
        RemoveLazy(
          RemoveLazy(s, <<Animate, SelfClose>>),
          <<AnimateMotion, SelfClose>>),
        <<AnimateTransform, SelfClose>>),
      <<Animate, TagClose, AnimateEnd>>),
    <<AnimateMotion, TagClose, AnimateMotionEnd>>)

\* the letters of </svg> in lower case, any other character as it is
Lower(c) ==
  CASE c = "S" -> "s"
    [] c = "V" -> "v"
    [] c = "G" -> "g"
    [] OTHER -> c

\* the <style> element of lines 195-221 and the ghost's of line 231, each as
\* one character of the output
StyleElement == "<style>visibilityStyles</style>"
GhostStyleElement == "<style>visibilityStyles dashed</style>"

\* s.replace(/<\/svg>/i, style + "</svg>"): the first closing tag only
InsertStyle(s, style) ==
  LET lowered == [j \in 1..Len(s) |-> Lower(s[j])]
      k == FirstAt(lowered, SvgEnd, 1)
  IN  IF k = 0 THEN s
      ELSE SubSeq(s, 1, k - 1) \o <<style>> \o SvgEnd
           \o SubSeq(s, k + Len(SvgEnd), Len(s))

\* lines 223-235: the ghost without animations and dashed, the live picture
\* with the style sheet
Styled(svg, isGhost) ==
  IF isGhost
  THEN InsertStyle(StripAnimations(svg), GhostStyleElement)
  ELSE InsertStyle(svg, StyleElement)

\* lines 178-236: processedSvg
processedSvg(svgTemplate, vals, result, isGhost) ==
  IF svgTemplate = <<>> THEN <<>>
  ELSE Styled(Substituted(svgTemplate, vals, result), isGhost)

\* the props the model renders with
TemplateBindings ==
  { <<>>, <<Entry("r", Fin(3, 1))>>,
    <<Entry("x", Fin(3, 1)), Entry("r", Fin(3, 1))>>,
    <<Entry("E", Fin(3, 1))>>, <<Entry("result", Fin(1, 1))>>,
    <<Entry("x", Fin(-1, 1))>> }
TemplateResults == {Fin(6, 1), Fin(0, 1), Str("Error")}

\* Visualizer renders with an SVG template: the memo of lines 178-236 runs
Render(t, v, res, ghost) ==
  /\ render' = [svgTemplate |-> t, values |-> v, result |-> res,
                isGhost |-> ghost,
                processedSvg |-> processedSvg(t, v, res, ghost),
                rendered |-> TRUE]
  /\ UNCHANGED <<mathVars, calc, editor, gen, graph, svgView>>

\* line 236: the memo runs again when one of its dependencies changes
TemplateChanges ==
  \E t \in Templates : Render(t, render.values, render.result, render.isGhost)

ValuesChange ==
  \E v \in TemplateBindings :
     Render(render.svgTemplate, v, render.result, render.isGhost)

ResultChanges ==
  \E res \in TemplateResults :
     Render(render.svgTemplate, render.values, res, render.isGhost)

IsGhostChanges ==
  Render(render.svgTemplate, render.values, render.result, ~render.isGhost)

NextTemplate ==
  \/ TemplateChanges
  \/ ValuesChange
  \/ ResultChanges
  \/ IsGhostChanges

\* the SVG template substitution of the Visualizer
SpecTemplate == Init /\ [][NextTemplate]_vars

\* ------------------------------------------------------------ ghost mode
\* lines 145-148: the CalculationResult made of rawRes
CalculationResult(rawRes) ==
  [value |-> IF TypeOf(rawRes) = "number" THEN rawRes ELSE Str("Error"),
   numericValue |-> IF TypeOf(rawRes) = "number" THEN rawRes ELSE Fin(0, 1)]

\* line 139: result && result.value !== "Error"
HasValidResult(c) == c.result # Null /\ c.result.value # Str("Error")

\* lines 133-153: the effect that runs when inputs or formula have changed;
\* c holds the inputs and formula of the new render and the result of the old
ResultEffect(c) ==
  IF c.formula = NoFormula THEN c
  ELSE LET rawRes == safeEvaluate(c.formula, c.inputs).val
       IN  [c EXCEPT
             !.prevInputs = IF HasValidResult(c) THEN c.inputs ELSE @,
             !.prevResult = IF HasValidResult(c) THEN c.result ELSE @,
             !.showGhost = IF HasValidResult(c) THEN TRUE ELSE @,
             !.recorded = HasValidResult(c),
             !.result = CalculationResult(rawRes)]

\* what the model lets the user and the service supply
AppFormulas == {"x", "2 * r", "1/x"}
InputValues == {Fin(0, 1), Fin(3, 1)}
InitialInputs ==
  { <<Entry("x", Fin(1, 1))>>,
    <<Entry("x", Fin(1, 1)), Entry("r", Fin(3, 1))>> }

\* an event has changed formula or inputs to those of c: the next render
\* and its effect
Rerender(c, event) ==
  /\ calc' = ResultEffect([c EXCEPT !.inputsBefore = calc.inputs,
                                    !.lastEvent = event,
                                    !.recorded = FALSE])
  /\ UNCHANGED <<mathVars, render, editor, gen, graph, svgView>>

\* lines 173-180: handleGenerate up to its await
GenerateStarts ==
  Rerender([calc EXCEPT !.formula = NoFormula, !.showGhost = FALSE], "generate")

\* lines 200-207: the generated formula arrives with its default inputs
FormulaArrives ==
  \E f \in AppFormulas, v \in InitialInputs :
     Rerender([calc EXCEPT !.formula = f, !.inputs = v], "formula")

\* line 731: onChange of the input section
InputChanges ==
  /\ calc.formula # NoFormula
  /\ \E sym \in {calc.inputs[j].key : j \in 1..Len(calc.inputs)}, val \in InputValues :
        Rerender([calc EXCEPT !.inputs = SpreadWith(calc.inputs, sym, val)], "inputs")

\* lines 289-300: saveEditing puts the edited formula in place
SaveEdited ==
  /\ calc.formula # NoFormula
  /\ \E f \in AppFormulas : Rerender([calc EXCEPT !.formula = f], "formula")

NextGhost ==
  \/ GenerateStarts
  \/ FormulaArrives
  \/ InputChanges
  \/ SaveEdited

\* the result effect of App and its ghost refs
SpecGhost == Init /\ [][NextGhost]_vars

\* ------------------------------------------------------------ editor auto-sync
\* the delay of the sync timer, in seconds (line 334: 2000 ms)
SyncDelay == 2
\* the number of edits the model follows
MaxEdits == 3

EditFields == {"latex", "js"}
\* what the user types into a field: a blank, a formula
UserTexts == {<<" ">>, <<"a">>}
\* what syncFormula returns as the translation
TranslatedText == <<"t">>

\* the other field: field === 'latex' ? 'js' : 'latex'
TargetOf(field) == IF field = "latex" THEN "js" ELSE "latex"

\* clearTimeout doing nothing
ClearTimeoutKeeps(timers, id) == timers

\* clearTimeout(id): the timeout with that id will not run
ClearTimeout(timers, id) == {t \in timers : t.id # id}

\* lines 273-281
StartEditing ==
  /\ ~editor.isEditing
  /\ editor' = [editor EXCEPT
       !.editState = [latex |-> FormulaText, js |-> FormulaText],
       !.isEditing = TRUE,
       !.lastEvent = "other"]
  /\ UNCHANGED <<mathVars, render, calc, gen, graph, svgView>>

\* lines 303-335, up to the setTimeout call: the user types value into field
handleEditorChange(field, value) ==
  /\ editor.isEditing
  /\ editor.edits < MaxEdits
  /\ editor' = [editor EXCEPT
       !.editState = [@ EXCEPT ![field] = value],
       !.activeEditField = field,
       !.timers = (IF editor.syncTimeoutRef # 0
                   THEN ClearTimeout(@, editor.syncTimeoutRef)
                   ELSE @)
                  \cup {[id |-> editor.edits + 1, field |-> field,
                         value |-> value, due |-> SyncDelay]},
       !.syncTimeoutRef = editor.edits + 1,
       !.edits = @ + 1,
       !.sinceEdit = 0,
       !.superseded = IF editor.edits > 0 /\ editor.sinceEdit < SyncDelay
                      THEN @ \cup {editor.edits}
                      ELSE @,
       !.lastEvent = "other"]
  /\ UNCHANGED <<mathVars, render, calc, gen, graph, svgView>>

UserEdits ==
  \E field \in EditFields, value \in UserTexts : handleEditorChange(field, value)

\* lines 283-287
cancelEditing ==
  /\ editor.isEditing
  /\ editor' = [editor EXCEPT
       !.isEditing = FALSE,
       !.activeEditField = "null",
       !.timers = IF editor.syncTimeoutRef # 0
                  THEN ClearTimeout(@, editor.syncTimeoutRef)
                  ELSE @,
       !.lastEvent = "cancel"]
  /\ UNCHANGED <<mathVars, render, calc, gen, graph, svgView>>

\* lines 289-300 (the editor is shown only while formula is set)
saveEditing ==
  /\ editor.isEditing
  /\ editor' = [editor EXCEPT
       !.isEditing = FALSE,
       !.activeEditField = "null",
       !.timers = IF editor.syncTimeoutRef # 0
                  THEN ClearTimeout(@, editor.syncTimeoutRef)
                  ELSE @,
       !.lastEvent = "save"]
  /\ UNCHANGED <<mathVars, render, calc, gen, graph, svgView>>

\* line 180: handleGenerate leaves the editor with setIsEditing(false)
GenerateLeavesEditor ==
  /\ editor.isEditing
  /\ editor' = [editor EXCEPT !.isEditing = FALSE, !.lastEvent = "other"]
  /\ UNCHANGED <<mathVars, render, calc, gen, graph, svgView>>

\* one second passes
Tick ==
  /\ \/ editor.sinceEdit < SyncDelay
     \/ \E t \in editor.timers : t.due > 0
  /\ editor' = [editor EXCEPT
       !.timers = {[t EXCEPT !.due = IF @ > 0 THEN @ - 1 ELSE 0] : t \in @},
       !.sinceEdit = IF @ < SyncDelay THEN @ + 1 ELSE @,
       !.lastEvent = "other"]
  /\ UNCHANGED <<mathVars, render, calc, gen, graph, svgView>>

\* lines 311-317: a timeout that is due runs, up to its await
TimerFires ==
  \E t \in editor.timers :
    /\ t.due = 0
    /\ editor' = [editor EXCEPT
         !.timers = @ \ {t},
         !.isSyncing = IF Trim(t.value) = <<>> THEN @ ELSE TRUE,
         !.requests = IF Trim(t.value) = <<>> THEN @
                      ELSE @ \cup {[id |-> t.id, field |-> t.field, value |-> t.value]},
         !.issued = IF Trim(t.value) = <<>> THEN @ ELSE @ \cup {t.id},
         !.lastEvent = "other"]
    /\ UNCHANGED <<mathVars, render, calc, gen, graph, svgView>>

\* lines 317-333: syncFormula settles: with a text, with "" or by throwing
SyncReturns ==
  \E r \in editor.requests, outcome \in {"text", "empty", "throws"} :
    /\ editor' = [editor EXCEPT
         !.requests = @ \ {r},
         !.editState = IF outcome = "text"
                       THEN [@ EXCEPT ![TargetOf(r.field)] = TranslatedText]
                       ELSE @,
         !.isSyncing = FALSE,
         !.lastEvent = "other",
         !.lastReturn = [wrote |-> outcome = "text", field |-> r.field,
                         wasEditing |-> editor.isEditing,
                         active |-> editor.activeEditField]]
    /\ UNCHANGED <<mathVars, render, calc, gen, graph, svgView>>

NextEditor ==
  \/ StartEditing
  \/ UserEdits
  \/ cancelEditing
  \/ saveEditing
  \/ GenerateLeavesEditor
  \/ Tick
  \/ TimerFires
  \/ SyncReturns

\* the formula editor of App with its debounced auto-sync
SpecEditor == Init /\ [][NextEditor]_vars

\* ------------------------------------------------------------ generate requests
\* the number of queries the model submits
MaxQueries == 3

\* what the user types as a query: a blank, a question
TypedQueries == {<<" ">>, <<"a">>}
\* the queries of suggestions, related queries and surpriseQueries
OfferedQueries == {<<"b">>}

\* lines 169-199: handleGenerate up to its await, q being forcedQuery || query
handleGenerate(g, q) ==
  IF Trim(q) = <<>> THEN g
  ELSE [g EXCEPT
         !.isLoading = TRUE,
         !.error = 0,
         !.formula = 0,
         !.requests = @ \cup {[id |-> g.submitted + 1, q |-> q]},
         !.submitted = @ + 1]

\* line 399: the user types into the query input
TypeQuery ==
  /\ \E q \in TypedQueries : gen' = [gen EXCEPT !.query = q]
  /\ UNCHANGED <<mathVars, render, calc, editor, graph, svgView>>

\* line 400: Enter in the query input
PressEnter ==
  /\ gen.submitted < MaxQueries
  /\ gen' = handleGenerate(gen, gen.query)
  /\ UNCHANGED <<mathVars, render, calc, editor, graph, svgView>>

\* lines 416-418: the Generate button, disabled={isLoading || !query}
ClickGenerate ==
  /\ gen.submitted < MaxQueries
  /\ ~gen.isLoading
  /\ gen.query # <<>>
  /\ gen' = handleGenerate(gen, gen.query)
  /\ UNCHANGED <<mathVars, render, calc, editor, graph, svgView>>

\* lines 240-244 and 407-409: the Surprise Me button, disabled={isLoading}
ClickSurprise ==
  /\ gen.submitted < MaxQueries
  /\ ~gen.isLoading
  /\ \E q \in OfferedQueries : gen' = handleGenerate([gen EXCEPT !.query = q], q)
  /\ UNCHANGED <<mathVars, render, calc, editor, graph, svgView>>

\* lines 503-539: a suggestion, shown while !formula && !isLoading && !error
SelectSuggestion ==
  /\ gen.submitted < MaxQueries
  /\ gen.formula = 0 /\ ~gen.isLoading /\ gen.error = 0
  /\ \E q \in OfferedQueries : gen' = handleGenerate([gen EXCEPT !.query = q], q)
  /\ UNCHANGED <<mathVars, render, calc, editor, graph, svgView>>

\* line 771: a related query, shown with the formula while !isLoading
SelectRelatedQuery ==
  /\ gen.submitted < MaxQueries
  /\ gen.formula # 0 /\ ~gen.isLoading
  /\ \E q \in OfferedQueries : gen' = handleGenerate([gen EXCEPT !.query = q], q)
  /\ UNCHANGED <<mathVars, render, calc, editor, graph, svgView>>

\* lines 481-486: Try Again, shown while error is set
ClickTryAgain ==
  /\ gen.submitted < MaxQueries
  /\ gen.error # 0
  /\ gen' = handleGenerate(gen, gen.query)
  /\ UNCHANGED <<mathVars, render, calc, editor, graph, svgView>>

\* lines 199-208 and 234-237: generateFormula resolves
GenerateResolves ==
  /\ \E r \in gen.requests :
       gen' = [gen EXCEPT
                 !.requests = @ \ {r},
                 !.formula = r.id,
                 !.query = r.q,
                 !.isLoading = FALSE]
  /\ UNCHANGED <<mathVars, render, calc, editor, graph, svgView>>

\* lines 209-237: generateFormula rejects
GenerateRejects ==
  /\ \E r \in gen.requests :
       gen' = [gen EXCEPT
                 !.requests = @ \ {r},
                 !.error = r.id,
                 !.isLoading = FALSE]
  /\ UNCHANGED <<mathVars, render, calc, editor, graph, svgView>>

NextGenerate ==
  \/ TypeQuery
  \/ PressEnter
  \/ ClickGenerate
  \/ ClickSurprise
  \/ SelectSuggestion
  \/ SelectRelatedQuery
  \/ ClickTryAgain
  \/ GenerateResolves
  \/ GenerateRejects

\* handleGenerate of App, its callers and its responses
SpecGenerate == Init /\ [][NextGenerate]_vars

\* ------------------------------------------------------------ graph domain
\* the number of zoom, wheel, pan and reset actions the model follows
MaxMoves == 3
\* rect.width of the container and the clientX of the events, in pixels
ContainerWidth == 2
ClientXs == 0..ContainerWidth

\* lines 327 and 352: 1e-6, in the unit of the x values
MinRange == Fin(1, 1)

\* lines 313-314: the default domains the model starts from: 1.2e-6, 2e-6
\* and 2e-5 wide, and one of 5e-7
DefaultDomains ==
  { [min |-> Fin(0, 1), max |-> Fin(6, 5)],
    [min |-> Fin(0, 1), max |-> Fin(2, 1)],
    [min |-> Fin(-10, 1), max |-> Fin(10, 1)],
    [min |-> Fin(0, 1), max |-> Fin(1, 2)] }

\* lines 315-316: xMin and xMax, the domain handed to generateGraphPoints
DomainOf(g) ==
  IF g.customDomain # Null THEN g.customDomain ELSE g.default

WidthOf(d) == NumSub(d.max, d.min)

\* the history a domain-changing action leaves behind
Noted(g, action, factor) ==
  [g EXCEPT !.moves = @ + 1, !.lastAction = action,
            !.before = DomainOf(g), !.factor = factor]

\* lines 323-329
handleGraphZoom(g, factor) ==
  LET xMin == DomainOf(g).min
      xMax == DomainOf(g).max
      xRange == NumSub(xMax, xMin)
      center == NumDiv(NumAdd(xMin, xMax), Fin(2, 1))
      newRange == NumMul(xRange, factor)
  IN  IF NumLess(newRange, MinRange) THEN g
      ELSE [g EXCEPT !.customDomain =
              [min |-> NumSub(center, NumDiv(newRange, Fin(2, 1))),
               max |-> NumAdd(center, NumDiv(newRange, Fin(2, 1)))]]

\* lines 339-358, for the live graph (isGhost false, rect.left 0)
onGraphWheel(g, clientX, deltaYPositive) ==
  LET xMin == DomainOf(g).min
      xMax == DomainOf(g).max
      ratio == NumDiv(Fin(clientX, 1), Fin(ContainerWidth, 1))
      currentRange == NumSub(xMax, xMin)
      zoomFactor == IF deltaYPositive THEN Fin(11, 10) ELSE Fin(9, 10)
      newRange == NumMul(currentRange, zoomFactor)
      cursorValue == NumAdd(xMin, NumMul(ratio, currentRange))
      newMin == NumSub(cursorValue, NumMul(ratio, newRange))
      newMax == NumAdd(newMin, newRange)
  IN  IF NumLess(newRange, MinRange) THEN g
      ELSE [g EXCEPT !.customDomain = [min |-> newMin, max |-> newMax]]

\* lines 99-110: the graph part of handleWindowMove
handleWindowMove(g, clientX) ==
  IF g.isGraphDragging /\ g.graphDragStartRef # Null
  THEN LET start == g.graphDragStartRef
           dx == Fin(clientX - start.x, 1)
           xRange == NumSub(start.max, start.min)
           shift == NumNeg(NumMul(NumDiv(dx, Fin(ContainerWidth, 1)), xRange))
       IN  [g EXCEPT !.customDomain = [min |-> NumAdd(start.min, shift),
                                       max |-> NumAdd(start.max, shift)]]
  ELSE g

GraphStep(g) ==
  /\ graph' = g
  /\ UNCHANGED <<mathVars, render, calc, editor, gen, svgView>>

\* the Visualizer is mounted for a graph formula
MountGraph ==
  /\ ~graph.mounted
  /\ \E d \in DefaultDomains :
       GraphStep([graph EXCEPT !.mounted = TRUE, !.default = d, !.before = d])

\* lines 370-371: the zoom buttons
ClickGraphZoom ==
  /\ graph.mounted /\ graph.moves < MaxMoves
  /\ \E factor \in {Fin(4, 5), Fin(5, 4)} :
       GraphStep(handleGraphZoom(Noted(graph, "zoom", factor), factor))

\* line 367: the wheel over the graph
WheelOverGraph ==
  /\ graph.mounted /\ graph.moves < MaxMoves
  /\ \E clientX \in ClientXs, deltaYPositive \in BOOLEAN :
       GraphStep(onGraphWheel(
         Noted(graph, "zoom", IF deltaYPositive THEN Fin(11, 10) ELSE Fin(9, 10)),
         clientX, deltaYPositive))

\* line 372: the reset button
ClickGraphReset ==
  /\ graph.mounted /\ graph.moves < MaxMoves
  /\ GraphStep([Noted(graph, "reset", Fin(1, 1)) EXCEPT !.customDomain = Null])

\* line 374: the pan mode button
ToggleGraphPan ==
  /\ graph.mounted
  /\ GraphStep([graph EXCEPT !.isPanModeEnabled = ~@, !.lastAction = "none"])

\* lines 331-337: the mouse goes down on the live graph
onGraphMouseDown ==
  /\ graph.mounted
  /\ ~graph.isGraphDragging
  /\ \E clientX \in ClientXs :
       GraphStep(IF graph.isPanModeEnabled
                 THEN [graph EXCEPT
                         !.isGraphDragging = TRUE,
                         !.graphDragStartRef =
                            [x |-> clientX, min |-> DomainOf(graph).min,
                             max |-> DomainOf(graph).max],
                         !.lastAction = "none"]
                 ELSE [graph EXCEPT !.lastAction = "none"])

\* lines 131-133: mousemove reaches the window listener while a drag is on
MouseMovesOverGraph ==
  /\ graph.isGraphDragging /\ graph.moves < MaxMoves
  /\ \E clientX \in ClientXs :
       GraphStep(handleWindowMove(Noted(graph, "pan", Fin(1, 1)), clientX))

\* lines 124-129: handleWindowUp
MouseUpOverGraph ==
  /\ graph.isGraphDragging
  /\ GraphStep([graph EXCEPT !.isGraphDragging = FALSE,
                             !.graphDragStartRef = Null,
                             !.lastAction = "none"])

NextGraph ==
  \/ MountGraph
  \/ ClickGraphZoom
  \/ WheelOverGraph
  \/ ClickGraphReset
  \/ ToggleGraphPan
  \/ onGraphMouseDown
  \/ MouseMovesOverGraph
  \/ MouseUpOverGraph

\* the domain of the graph under zoom, wheel, pan and reset
SpecGraph == Init /\ [][NextGraph]_vars

\* ------------------------------------------------------------ SVG view
\* the number of zoom clicks and of wheel events the model follows from a
\* view at rest, and the largest offset x a drag is followed to
MaxZooms == 13
MaxWheels == 1
MaxOffset == 1

\* ---- the arithmetic of scales: natural numbers of any size, as sequences
\* ---- of digits in base 10000 with the lowest digit first
RECURSIVE BigTimesFrom(_, _, _)
BigTimesFrom(b, m, carry) ==
  IF b = <<>> THEN (IF carry = 0 THEN <<>> ELSE <<carry>>)
  ELSE LET t == Head(b) * m + carry
       IN  <<t % 10000>> \o BigTimesFrom(Tail(b), m, t \div 10000)

\* b * m for a factor m below 10000
BigTimes(b, m) == BigTimesFrom(b, m, 0)

\* b * p^e
RECURSIVE BigTimesPower(_, _, _)
BigTimesPower(b, p, e) ==
  IF e <= 0 THEN b ELSE BigTimesPower(BigTimes(b, p), p, e - 1)

RECURSIVE BigLessFrom(_, _, _)
BigLessFrom(a, b, top) ==
  IF top = 0 THEN FALSE
  ELSE IF a[top] # b[top] THEN a[top] < b[top]
  ELSE BigLessFrom(a, b, top - 1)

BigLess(a, b) ==
  IF Len(a) # Len(b) THEN Len(a) < Len(b) ELSE BigLessFrom(a, b, Len(a))

\* numerator and denominator of a scale
NumeratorOf(k) ==
  BigTimesPower(BigTimesPower(BigTimesPower(BigTimesPower(
    <<1>>, 2, k.e2), 3, k.e3), 5, k.e5), 11, k.e11)

DenominatorOf(k) ==
  BigTimesPower(BigTimesPower(BigTimesPower(BigTimesPower(
    <<1>>, 2, -k.e2), 3, -k.e3), 5, -k.e5), 11, -k.e11)

\* a * b and a / b
ScaleTimes(a, b) ==
  Scale(a.e2 + b.e2, a.e3 + b.e3, a.e5 + b.e5, a.e11 + b.e11)

ScaleOver(a, b) ==
  Scale(a.e2 - b.e2, a.e3 - b.e3, a.e5 - b.e5, a.e11 - b.e11)

\* a < b
ScaleLess(a, b) ==
  BigLess(NumeratorOf(ScaleOver(a, b)), DenominatorOf(ScaleOver(a, b)))

\* Math.max and Math.min of lines 42 and 73
ScaleMax(a, b) == IF ScaleLess(a, b) THEN b ELSE a
ScaleMin(a, b) == IF ScaleLess(b, a) THEN b ELSE a

\* lines 42 and 73: 0.1 and 10
Tenth == Scale(-1, 0, -1, 0)
Ten == Scale(1, 0, 1, 0)

\* lines 251-252: 1.2 and 0.8
ZoomInFactor == Scale(1, 1, -1, 0)
ZoomOutFactor == Scale(2, 0, -1, 0)

\* lines 66-68: 1 + 0.1 and 1 - 0.1
WheelFactor(deltaYPositive) ==
  IF deltaYPositive THEN Scale(-1, 2, -1, 0) ELSE Scale(-1, 0, -1, 1)

\* the positions of the mouse: clientX and clientY
MousePositions == { [clientX |-> 0, clientY |-> 0], [clientX |-> 1, clientY |-> 2] }

\* lines 39-44 without Math.min and Math.max
handleSvgZoomUnclamped(prev, factor) ==
  [prev EXCEPT !.k = ScaleTimes(prev.k, factor)]

\* lines 39-44: the updater of handleSvgZoom; the updater of onSvgWheel,
\* lines 71-74, is the same
handleSvgZoom(prev, factor) ==
  [prev EXCEPT !.k = ScaleMin(ScaleMax(ScaleTimes(prev.k, factor), Tenth), Ten)]

\* line 46
handleSvgReset(prev) == SvgRest

\* lines 112-121: the SVG part of handleWindowMove
svgDragMove(v, e) ==
  LET dx == e.clientX - v.svgDragStartRef.clientX
      dy == e.clientY - v.svgDragStartRef.clientY
  IN  [v.svgTransform EXCEPT !.x = v.svgDragStartRef.x + dx,
                             !.y = v.svgDragStartRef.y + dy]

SvgStep(v) ==
  /\ svgView' = v
  /\ UNCHANGED <<mathVars, render, calc, editor, gen, graph>>

\* lines 251-252: the zoom buttons
ClickSvgZoom ==
  /\ svgView.zooms < MaxZooms
  /\ \E factor \in {ZoomInFactor, ZoomOutFactor} :
       SvgStep([svgView EXCEPT !.zooms = @ + 1,
                               !.svgTransform = handleSvgZoom(@, factor)])

\* lines 63-75: onSvgWheel on the live picture
onSvgWheel ==
  /\ svgView.wheels < MaxWheels
  /\ \E deltaYPositive \in BOOLEAN :
       SvgStep([svgView EXCEPT
                  !.wheels = @ + 1,
                  !.svgTransform = handleSvgZoom(@, WheelFactor(deltaYPositive))])

\* line 253: the reset button
ClickSvgReset ==
  /\ svgView' = [svgView EXCEPT !.svgTransform = handleSvgReset(@),
                                !.zooms = 0, !.wheels = 0]
  /\ UNCHANGED <<mathVars, render, calc, editor, gen, graph>>

\* lines 33-36: the formula changes
FormulaChangesView ==
  /\ svgView' = [svgView EXCEPT !.svgTransform = SvgRest,
                                !.zooms = 0, !.wheels = 0]
  /\ UNCHANGED <<mathVars, render, calc, editor, gen, graph>>

\* line 255: the pan mode button
ToggleSvgPan ==
  /\ svgView' = [svgView EXCEPT !.isPanModeEnabled = ~@]
  /\ UNCHANGED <<mathVars, render, calc, editor, gen, graph>>

\* lines 48-61: the mouse goes down on the live picture
onSvgMouseDown ==
  /\ ~svgView.isSvgDragging
  /\ \E e \in MousePositions, button \in {0, 1} :
       SvgStep(IF svgView.isPanModeEnabled \/ button = 1
               THEN [svgView EXCEPT
                       !.isSvgDragging = TRUE,
                       !.svgDragStartRef =
                          [clientX |-> e.clientX, clientY |-> e.clientY,
                           x |-> svgView.svgTransform.x,
                           y |-> svgView.svgTransform.y]]
               ELSE svgView)

\* lines 131-133 and 112-121: mousemove reaches the window listener while a
\* drag is on
MouseMovesOverSvg ==
  /\ svgView.isSvgDragging /\ svgView.svgDragStartRef # Null
  /\ \E e \in MousePositions :
       /\ svgDragMove(svgView, e).x \in -MaxOffset..MaxOffset
       /\ SvgStep([svgView EXCEPT !.svgTransform = svgDragMove(svgView, e)])

\* lines 124-129: handleWindowUp
MouseUpOverSvg ==
  /\ svgView.isSvgDragging
  /\ SvgStep([svgView EXCEPT !.isSvgDragging = FALSE, !.svgDragStartRef = Null])

NextSvg ==
  \/ ClickSvgZoom
  \/ onSvgWheel
  \/ ClickSvgReset
  \/ FormulaChangesView
  \/ ToggleSvgPan
  \/ onSvgMouseDown
  \/ MouseMovesOverSvg
  \/ MouseUpOverSvg

\* the SVG view under zoom, wheel, reset, drag and formula change
SpecSvg == Init /\ [][NextSvg]_vars

\* ------------------------------------------------------------ properties
ErrorMarker == Str("Error")

\* the identifiers that occur anywhere in an expression
RECURSIVE AllIdents(_)
RECURSIVE AllIdentsOfList(_)
AllIdentsOfList(es) ==
  IF es = <<>> THEN {} ELSE AllIdents(Head(es)) \cup AllIdentsOfList(Tail(es))
AllIdents(e) ==
  CASE e.op = "id" -> {e.name}
    [] e.op = "bin" -> AllIdents(e.l) \cup AllIdents(e.r)
    [] e.op = "cond" -> AllIdents(e.t) \cup AllIdents(e.l) \cup AllIdents(e.r)
    [] e.op = "member" -> AllIdents(e.obj)
    [] e.op = "call" -> AllIdents(e.fn) \cup AllIdentsOfList(e.args)
    [] e.op = "arrlit" -> AllIdentsOfList(e.elems)
    [] OTHER -> {}

\* the identifiers outside the branches of any conditional: evaluation reaches
\* each of them unless an earlier part of the expression throws
RECURSIVE StrictIdents(_)
RECURSIVE StrictIdentsOfList(_)
StrictIdentsOfList(es) ==
  IF es = <<>> THEN {} ELSE StrictIdents(Head(es)) \cup StrictIdentsOfList(Tail(es))
StrictIdents(e) ==
  CASE e.op = "id" -> {e.name}
    [] e.op = "bin" -> StrictIdents(e.l) \cup StrictIdents(e.r)
    [] e.op = "cond" -> StrictIdents(e.t)
    [] e.op = "member" -> StrictIdents(e.obj)
    [] e.op = "call" -> StrictIdents(e.fn) \cup StrictIdentsOfList(e.args)
    [] e.op = "arrlit" -> StrictIdentsOfList(e.elems)
    [] OTHER -> {}

KeySet(obj) == {obj[j].key : j \in 1..Len(obj)}

\* every completion the evaluator handed to a caller so far
Handed == {ret} \cup {log[j].y : j \in 1..Len(log)}

\* C1: safeEvaluate is total. Whatever the formula and the binding, the call
\* completes normally with a value: a direct caller gets a normal completion,
\* and no evaluator call made by the sampler throws into it.
C1_Total ==
  /\ \A c \in Handed : c.kind = "normal"
  /\ pc # "thrown"

\* C1 witness: a direct call whose try block threw (here while building the
\* function) has returned the marker.
C1_Witness ==
  /\ pc = "evaluated"
  /\ NewFunction(ObjectKeys(values), formula).kind = "throw"
  /\ ret = Normal(ErrorMarker)

\* a direct call of safeEvaluate has returned
Evaluated == pc = "evaluated"

\* C2 as claimed: a syntax error, a runtime exception, or any identifier of the
\* expression that is neither a key of the binding nor a whitelisted math name
\* makes the result the marker.
C2_Original ==
  Evaluated =>
    ( ( \/ ~Parse(formula).ok
        \/ RawResult(formula, values).kind = "throw"
        \/ \E name \in AllIdents(Parse(formula).ast) :
             name \notin KeySet(values) /\ name \notin MathNames )
      => ret = Normal(ErrorMarker) )

\* C2 amended: a syntax error, a runtime exception, or an identifier outside
\* the branches of a conditional that is neither a key of the binding, nor a
\* whitelisted math name, nor a global name of the host makes the result the
\* marker.
C2_FaultsYieldError ==
  Evaluated =>
    ( ( \/ ~Parse(formula).ok
        \/ RawResult(formula, values).kind = "throw"
        \/ \E name \in StrictIdents(Parse(formula).ast) :
             name \notin KeySet(values) /\ name \notin MathNames /\ name \notin Globals )
      => ret = Normal(ErrorMarker) )

\* C2 witness: evaluate("x + y", {x: 1}) has returned the marker.
C2_Witness ==
  /\ Evaluated
  /\ formula = "x + y"
  /\ values = <<Entry("x", Fin(1, 1))>>
  /\ ret = Normal(ErrorMarker)

\* C3: safeEvaluate never returns a non-finite number: a raw result that is
\* NaN, +Infinity or -Infinity is returned as the marker.
C3_NeverNonFinite ==
  /\ \A c \in Handed : ~(c.val.k = "number" /\ c.val.c # "fin")
  /\ Evaluated =>
       LET raw == RawResult(formula, values)
       IN  (raw.kind = "normal" /\ raw.val.k = "number" /\ raw.val.c # "fin")
             => ret = Normal(ErrorMarker)

\* C3 witness: a direct call whose raw result is +Infinity returned the marker.
C3_Witness ==
  /\ Evaluated
  /\ RawResult(formula, values) = Normal(PosInf)
  /\ ret = Normal(ErrorMarker)

\* C4 as claimed: the returned value is a finite number or the marker, and
\* nothing else.
C4_Original ==
  Evaluated => (IsFinite(ret.val) \/ ret.val = ErrorMarker)

PassedKinds == {"string", "boolean", "undefined", "null", "function"}

\* C4 amended: the returned value is a finite number, the marker, or the raw
\* result itself when that is a string, a boolean, undefined, null or a
\* function; it is never a non-finite number, an object or an array, and a raw
\* result of those five kinds is always returned unchanged.
C4_ReturnedKinds ==
  Evaluated =>
    LET raw == RawResult(formula, values)
    IN  /\ ret.kind = "normal"
        /\ \/ IsFinite(ret.val)
           \/ ret.val = ErrorMarker
           \/ ret.val.k \in PassedKinds /\ raw = Normal(ret.val)
        /\ (raw.kind = "normal" /\ raw.val.k \in PassedKinds) => ret = raw

\* C4 witness: a direct call returned null, which is neither a finite number
\* nor the marker.
C4_Witness ==
  /\ Evaluated
  /\ ret = Normal(Null)

\* ------------------------------------------------------------ sampler properties
Sampling == pc \in {"loop", "done"}
Sampled == pc = "done"

\* the evaluator's result of a logged step is a finite number
FiniteEntry(e) == e.y.kind = "normal" /\ e.y.val.k = "number" /\ e.y.val.c = "fin"

\* the point a logged step stands for
PointOf(e) == [x |-> e.x, y |-> e.y.val]

\* x_j = minX + (j / steps) * (maxX - minX) as one exact fraction
ExpectedX(j) ==
  Fin(minX.n * maxX.d * steps + j * (maxX.n * minX.d - minX.n * maxX.d),
      minX.d * maxX.d * steps)

\* C5 as claimed: with steps = 0 the pass considers exactly one sample, at
\* x = minX; no emitted point has a non-real x, and when the expression is
\* finite at minX the series is exactly [(minX, y)].
C5_Original ==
  (Sampled /\ steps = 0) =>
    /\ Len(log) = 1
    /\ log[1].x = minX
    /\ \A p \in 1..Len(points) : IsFinite(points[p].x)
    /\ LET y == safeEvaluate(formula, SpreadWith(values0, variableKey, minX))
       IN  IsPlottable(y.val) => points = <<[x |-> minX, y |-> y.val]>>

\* C6: for steps >= 1 the pass evaluates at exactly the steps + 1 points
\* x_j = minX + (j / steps) * (maxX - minX), j = 0..steps, once each and in
\* index order; the first is minX and the last is maxX.
C6_Grid ==
  (Sampling /\ steps >= 1) =>
    /\ Len(log) = i
    /\ \A j \in 1..Len(log) : log[j].i = j - 1 /\ log[j].x = ExpectedX(j - 1)
    /\ Sampled =>
         /\ Len(log) = steps + 1
         /\ log[1].x = minX
         /\ log[steps + 1].x = maxX

\* C6 witness: a finished pass of at least 3 samples over a domain that is
\* not a single point.
C6_Witness ==
  /\ Sampled
  /\ steps >= 2
  /\ minX # maxX
  /\ Len(log) = steps + 1
  /\ log[steps + 1].x = maxX

\* C7: the series holds the point (x_j, y_j) of exactly the steps whose
\* evaluator result is a finite number, and nothing for any other step.
C7_EmitsIffFinite ==
  Sampling =>
    LET kept == SelectSeq(log, FiniteEntry)
    IN  points = [p \in 1..Len(kept) |-> PointOf(kept[p])]

\* C7 witness: a finished pass in which one step gave a string that is not
\* the marker and another a finite number.
C7_Witness ==
  /\ Sampled
  /\ \E j \in 1..Len(log) : log[j].y.val = Str("low")
  /\ \E j \in 1..Len(log) : FiniteEntry(log[j])
  /\ Len(points) >= 1
  /\ Len(points) < Len(log)

\* the evaluator's result at step index j of the running pass, computed from
\* the arguments of the call
ResultAt(j) ==
  safeEvaluate(formula,
               SpreadWith(values0, variableKey, SampleX(minX, NumSub(maxX, minX), j, steps)))

\* C8: the series is at most steps + 1 long, as long as the number of step
\* indices whose evaluation gave a finite number, and shorter than steps + 1
\* exactly when some sample failed.
C8_Length ==
  Sampled =>
    LET good == {j \in 0..steps : IsPlottable(ResultAt(j).val)}
    IN  /\ Len(points) <= steps + 1
        /\ Len(points) = Cardinality(good)
        /\ (Len(points) < steps + 1) <=> (good # 0..steps)

\* C8 witness: a finished pass of full length, steps + 1 > 1.
C8_Witness ==
  /\ Sampled
  /\ steps >= 1
  /\ Len(points) = steps + 1

\* C9: a failed evaluation only drops its own step. The pass never throws,
\* every index 0..steps is evaluated whatever failed before it, every finite
\* result is in the series, and a pass that fails everywhere returns the
\* empty series.
C9_NoAbort ==
  /\ pc # "thrown"
  /\ Sampled =>
       /\ Len(log) = steps + 1
       /\ \A j \in 1..Len(log) :
            FiniteEntry(log[j]) => \E p \in 1..Len(points) : points[p] = PointOf(log[j])
       /\ (\A j \in 1..Len(log) : ~FiniteEntry(log[j])) => points = <<>>

\* C9 witness: a finished pass in which a step failed and a later step was
\* still evaluated and emitted.
C9_Witness ==
  /\ Sampled
  /\ \E j \in 1..Len(log) : \E j2 \in (j + 1)..Len(log) :
       /\ log[j].y.val = ErrorMarker
       /\ FiniteEntry(log[j2])
       /\ points[Len(points)] = PointOf(log[j2])

\* C10: the pass leaves the caller's bindings as they were at the call: same
\* keys, same value for every key, the independent variable's included.
C10_BindingsUntouched == Sampling => values = values0

\* C10 witness: a finished pass over bindings that hold the independent
\* variable, whose per-step object got another value for it.
C10_Witness ==
  /\ Sampled
  /\ HasKey(values0, variableKey)
  /\ Len(log) >= 2
  /\ Get(tempValues, variableKey) # Get(values0, variableKey)
  /\ values = values0

\* C11: at every step the object passed to the evaluator has the caller's
\* keys and the independent variable, holds x_i for the independent variable
\* whatever the caller supplied for it, and holds the caller's value for
\* every other key.
C11_StepBinding ==
  Sampling =>
    \A j \in 1..Len(log) :
      LET a == log[j].arg
      IN  /\ KeySet(a) = KeySet(values0) \cup {variableKey}
          /\ Len(a) = Cardinality(KeySet(a))
          /\ Get(a, variableKey) = log[j].x
          /\ steps >= 1 => Get(a, variableKey) = ExpectedX(j - 1)
          /\ \A key \in KeySet(values0) \ {variableKey} :
               Get(a, key) = Get(values0, key)

\* C11 witness: a finished pass over bindings that hold the independent
\* variable and another key, at a step whose x is not the caller's value.
C11_Witness ==
  /\ Sampled
  /\ HasKey(values0, variableKey)
  /\ KeySet(values0) # {variableKey}
  /\ \E j \in 1..Len(log) :
       /\ IsFinite(log[j].x)
       /\ log[j].x # Get(values0, variableKey)
       /\ Get(log[j].arg, variableKey) = log[j].x

\* C12: the points of the series stand in the order of their step indices;
\* for steps >= 1 their x increases when maxX > minX, is constant when
\* maxX = minX, and when maxX < minX the pass is carried out all the same and
\* the x decrease from minX towards maxX.
C12_Order ==
  Sampling =>
    /\ \A p \in 1..Len(points) : \A q \in (p + 1)..Len(points) :
         \E j \in 1..Len(log) : \E k \in (j + 1)..Len(log) :
           /\ FiniteEntry(log[j]) /\ points[p] = PointOf(log[j])
           /\ FiniteEntry(log[k]) /\ points[q] = PointOf(log[k])
    /\ steps >= 1 =>
         \A p \in 1..Len(points) : \A q \in (p + 1)..Len(points) :
           /\ NumLess(minX, maxX) => NumLess(points[p].x, points[q].x)
           /\ minX = maxX => points[p].x = points[q].x
           /\ NumLess(maxX, minX) =>
                /\ NumLess(points[q].x, points[p].x)
                /\ ~NumLess(minX, points[p].x)
                /\ ~NumLess(points[q].x, maxX)
    /\ (Sampled /\ steps >= 1 /\ NumLess(maxX, minX)) =>
         /\ Len(log) = steps + 1
         /\ log[1].x = minX
         /\ log[Len(log)].x = maxX

\* C12 witness: a finished pass with maxX < minX whose series runs from minX
\* down to maxX.
C12_Witness ==
  /\ Sampled
  /\ NumLess(maxX, minX)
  /\ Len(points) >= 3
  /\ points[1].x = minX
  /\ points[Len(points)].x = maxX

ValueInScope(f, v) ==
  LET keys == ObjectKeys(v)
      args == [j \in 1..Len(keys) |-> Get(v, keys[j])]
      r == Eval(Parse(f).ast, keys, args)
  IN  Catch(IF r.kind = "throw" THEN r ELSE Classify(r.val))

\* C14 as claimed: whatever identifiers the binding's keys are, an expression
\* that refers only to bound variables and whitelisted math names is
\* evaluated with all of them in scope.
C14_Original ==
  ( /\ Evaluated
    /\ Parse(formula).ok
    /\ KeySet(values) \subseteq Identifiers
    /\ AllIdents(Parse(formula).ast) \subseteq KeySet(values) \cup MathNames )
  => ret = ValueInScope(formula, values)

\* b to the power e on integers, e >= 0
RECURSIVE IntPower(_, _)
IntPower(b, e) == IF e = 0 THEN 1 ELSE b * IntPower(b, e - 1)

IsInt(v) == v.k = "number" /\ v.c = "fin" /\ v.d = 1

\* the call generateGraphPoints(f, {}, "x", -2, 2, 4) has returned
SampledOnExample(f) ==
  /\ Sampled
  /\ formula = f
  /\ values0 = <<>>
  /\ variableKey = "x"
  /\ minX = Fin(-2, 1)
  /\ maxX = Fin(2, 1)
  /\ steps = 4

\* the series whose x are -2, -1, 0, 1, 2 and whose y are given
SeriesFromMinus2(ys) == [p \in 1..5 |-> [x |-> Fin(p - 3, 1), y |-> Fin(ys[p], 1)]]

\* both x and r are bound to integers in a direct call of formula f
PowerCall(f) ==
  /\ Evaluated
  /\ formula = f
  /\ HasKey(values, "x") /\ IsInt(Get(values, "x"))
  /\ HasKey(values, "r") /\ IsInt(Get(values, "r"))

\* C15 as claimed: ^ is exponentiation. generateGraphPoints("x^2", {}, "x",
\* -2, 2, 4) returns y = 4, 1, 0, 1, 4 at x = -2..2, and "x^r" evaluates to x
\* raised to r for integers x and r.
C15_Original ==
  /\ SampledOnExample("x^2") => points = SeriesFromMinus2(<<4, 1, 0, 1, 4>>)
  /\ PowerCall("x^r") =>
       ret = Normal(Fin(IntPower(Get(values, "x").n, Get(values, "r").n), 1))

\* C15 amended: pow is exponentiation and ^ is the bitwise exclusive or.
\* generateGraphPoints("pow(x, 2)", {}, "x", -2, 2, 4) returns y = 4, 1, 0,
\* 1, 4 at x = -2..2 and "pow(x, r)" evaluates to x raised to r for integers
\* x and r, while the same call on "x^2" returns y = -4, -3, 2, 3, 0.
C15_PowIsPower ==
  /\ SampledOnExample("pow(x, 2)") => points = SeriesFromMinus2(<<4, 1, 0, 1, 4>>)
  /\ PowerCall("pow(x, r)") =>
       ret = Normal(Fin(IntPower(Get(values, "x").n, Get(values, "r").n), 1))
  /\ SampledOnExample("x^2") => points = SeriesFromMinus2(<<-4, -3, 2, 3, 0>>)

\* C15 witness: the example call on "pow(x, 2)" has returned its 5 points.
C15_Witness ==
  /\ SampledOnExample("pow(x, 2)")
  /\ Len(points) = 5
  /\ points[1] = [x |-> Fin(-2, 1), y |-> Fin(4, 1)]

\* the call generateGraphPoints("1/x", {}, "x", -1, 1, 2) has returned
SampledReciprocal ==
  /\ Sampled
  /\ formula = "1/x"
  /\ values0 = <<>>
  /\ variableKey = "x"
  /\ minX = Fin(-1, 1)
  /\ maxX = Fin(1, 1)
  /\ steps = 2

\* C16: division by zero is rejected. safeEvaluate("1/0", {}) returns the
\* failure marker, and generateGraphPoints("1/x", {}, "x", -1, 1, 2) returns
\* exactly the points (-1, -1) and (1, 1): the sample at x = 0 is dropped.
C16_DivisionByZero ==
  /\ (Evaluated /\ formula = "1/0" /\ values = <<>>) => ret = Normal(ErrorMarker)
  /\ SampledReciprocal =>
       /\ points = << [x |-> Fin(-1, 1), y |-> Fin(-1, 1)],
                      [x |-> Fin(1, 1), y |-> Fin(1, 1)] >>
       /\ log[2].x = Fin(0, 1)
       /\ log[2].y = Normal(ErrorMarker)

\* C16 witness: the reciprocal has been sampled over [-1, 1] in 2 steps, the
\* middle sample was taken at x = 0 and 2 points came back.
C16_Witness ==
  /\ SampledReciprocal
  /\ Len(log) = 3
  /\ log[2].x = Fin(0, 1)
  /\ Len(points) = 2

\* the evaluation of f under v failed: a fault, a non-finite number or a
\* composite (object or array) raw result
EvaluationFailed(f, v) ==
  LET raw == RawResult(f, v)
  IN  \/ raw.kind = "throw"
      \/ /\ raw.kind = "normal"
         /\ \/ TypeOf(raw.val) = "number" /\ ~IsFinite(raw.val)
            \/ TypeOf(raw.val) = "object" /\ raw.val # Null

\* C17 as claimed: the failure marker is a distinguished sentinel.
\* safeEvaluate returns "Error" if and only if the evaluation failed; no
\* expression that evaluates successfully returns a value equal to the marker.
C17_Original ==
  Evaluated => (ret = Normal(ErrorMarker) <=> EvaluationFailed(formula, values))

\* a string, a boolean, undefined or null
IsNonNumericPrimitive(v) ==
  \/ TypeOf(v) \in {"string", "boolean", "undefined"}
  \/ v = Null

\* C18: when the evaluation completes without fault and the raw result is a
\* non-numeric primitive (a string, for one) or a finite number, safeEvaluate
\* returns that very value.
C18_PassThrough ==
  LET raw == RawResult(formula, values)
  IN  ( /\ Evaluated
        /\ raw.kind = "normal"
        /\ \/ IsNonNumericPrimitive(raw.val)
           \/ TypeOf(raw.val) = "number" /\ IsFinite(raw.val) )
      => ret = raw

\* C18 witness: an expression that resolves to text has been evaluated and
\* the text came back.
C18_Witness ==
  /\ Evaluated
  /\ RawResult(formula, values) = Normal(Str("low"))
  /\ ret = Normal(Str("low"))

\* an object, an array or a function
IsComposite(v) == v.k \in {"object", "array", "function"}

\* C19 as claimed: safeEvaluate never returns a composite value. Whenever the
\* raw result is an object, an array or another non-scalar such as a
\* function, the returned value is the failure marker.
C19_Original ==
  LET raw == RawResult(formula, values)
  IN  Evaluated =>
        /\ ~IsComposite(ret.val)
        /\ (raw.kind = "normal" /\ IsComposite(raw.val)) => ret = Normal(ErrorMarker)

\* e is built from +, -, * over variables and integer literals
RECURSIVE IsArith(_)
IsArith(e) ==
  CASE e.op = "lit" -> IsInt(e.v)
    [] e.op = "id" -> TRUE
    [] e.op = "bin" -> e.f \in {"+", "-", "*"} /\ IsArith(e.l) /\ IsArith(e.r)
    [] OTHER -> FALSE

\* the integer an arithmetic expression denotes under the binding v
RECURSIVE ArithValue(_, _)
ArithValue(e, v) ==
  CASE e.op = "lit" -> e.v.n
    [] e.op = "id" -> Get(v, e.name).n
    [] e.op = "bin" /\ e.f = "+" -> ArithValue(e.l, v) + ArithValue(e.r, v)
    [] e.op = "bin" /\ e.f = "-" -> ArithValue(e.l, v) - ArithValue(e.r, v)
    [] e.op = "bin" /\ e.f = "*" -> ArithValue(e.l, v) * ArithValue(e.r, v)

\* the call evaluated an arithmetic expression whose variables are all bound
\* to integers, under a binding whose keys are variable names
ArithmeticCall ==
  /\ Evaluated
  /\ Parse(formula).ok
  /\ IsArith(Parse(formula).ast)
  /\ KeySet(values) \subseteq Identifiers
  /\ AllIdents(Parse(formula).ast) \subseteq KeySet(values)
  /\ \A j \in 1..Len(values) : IsInt(values[j].val)

\* C20 as claimed: for every expression built from +, -, * and parentheses
\* over bound variables and integer literals, under a binding that gives every
\* free variable an integer, safeEvaluate returns the arithmetic value of the
\* expression ("2 * r" with r = 3 gives 6).
C20_Original ==
  ArithmeticCall =>
    ret = Normal(Fin(ArithValue(Parse(formula).ast, values), 1))

\* ------------------------------------------------------------ SVG template claims
Rendered == render.rendered

\* the number of places at which pat occurs in s
Occurrences(s, pat) == Cardinality({k \in 1..Len(s) : StartsWithAt(s, k, pat)})

\* the first pass with ReplacerKeepsFailures for its callback
RECURSIVE KeepFailuresFrom(_, _, _)
KeepFailuresFrom(s, k, vals) ==
  IF k > Len(s) THEN <<>>
  ELSE LET m == MatchEnd(s, k)
       IN  IF m = 0
           THEN <<s[k]>> \o KeepFailuresFrom(s, k + 1, vals)
           ELSE ReplacerKeepsFailures(SubSeq(s, k, m + 1), SubSeq(s, k + 2, m - 1), vals)
                \o KeepFailuresFrom(s, m + 2, vals)

\* C21 as claimed: after the Visualizer has processed a template, every
\* {{result}} of the template stands replaced by the result prop, whenever no
\* variable is named result; the expression pass leaves {{result}} in place
\* for the replacement that follows it.
C21_Original ==
  ( /\ Rendered
    /\ ~HasKey(render.values, "result") )
  => /\ Occurrences(ReplaceExpressions(render.svgTemplate, render.values),
                    ResultPlaceholder)
          = Occurrences(render.svgTemplate, ResultPlaceholder)
     /\ render.processedSvg =
          Styled(ReplaceExpressions(ReplaceResult(render.svgTemplate, render.result),
                                    render.values),
                 render.isGhost)

\* C22 as claimed: a {{expression}} is replaced by the number rounded to 4
\* decimals when the expression evaluates to a finite number and by the text
\* when it evaluates to a string, and is left exactly as written when its
\* evaluation fails; the failure marker is never put in its place.
C22_Original ==
  Rendered =>
    render.processedSvg =
      Styled(ReplaceResult(KeepFailuresFrom(render.svgTemplate, 1, render.values),
                           render.result),
             render.isGhost)

\* ------------------------------------------------------------ ghost mode claims
\* the value and numericValue the result effect makes of formula f and inputs v
ResultOf(f, v) == CalculationResult(safeEvaluate(f, v).val)

\* C23 as claimed: when the inputs change while a valid (non-"Error") result
\* exists, prevInputs becomes the inputs that were in effect before the change
\* and prevResult the result computed from those same inputs: the ghost shows
\* a consistent (inputs, result) pair from the step before.
C23_Original ==
  (calc.lastEvent = "inputs" /\ calc.recorded)
  => /\ calc.prevInputs = calc.inputsBefore
     /\ calc.prevResult = ResultOf(calc.formula, calc.prevInputs)

\* ------------------------------------------------------------ editor claims
\* C24 as claimed: a translation is written to the target field only if the
\* user has not switched context since the sync was scheduled, that is, the
\* editor is still open and the source field is still the field being edited;
\* a translation that returns after an edit of the other field, a cancel or a
\* save does not overwrite the edit state.
C24_Original ==
  editor.lastReturn.wrote
  => /\ editor.lastReturn.wasEditing
     /\ editor.lastReturn.active = editor.lastReturn.field

\* C27: the auto-sync is debounced by SyncDelay seconds. At most one sync
\* timer is pending at any time; no request is issued for an edit that was
\* followed by another edit less than SyncDelay seconds later, so a run of
\* such edits issues at most one request, for its last value; and after
\* cancelEditing or saveEditing no timer is pending.
C27_Debounced ==
  /\ Cardinality(editor.timers) <= 1
  /\ editor.issued \cap editor.superseded = {}
  /\ editor.lastEvent \in {"cancel", "save"} => editor.timers = {}

\* C27 witness: of a run of three edits in quick succession the first two
\* were superseded and the request went out for the third.
C27_Witness ==
  /\ editor.superseded = {1, 2}
  /\ editor.issued = {3}
  /\ editor.timers = {}

\* ------------------------------------------------------------ generate claims
\* C25 as claimed: isLoading is true in every state in which at least one
\* generateFormula request is in flight and false once none is, whatever the
\* interleaving of handleGenerate calls and responses.
C25_Original == gen.isLoading <=> gen.requests # {}

\* C26 as claimed: once all requests in flight have completed, the formula
\* and the error state shown are those of the query submitted last; the
\* response or failure of an earlier query that arrives later never
\* overwrites them; and error and formula are never both set.
C26_Original ==
  /\ (gen.requests = {} /\ gen.submitted > 0)
     => \/ gen.formula = gen.submitted /\ gen.error = 0
        \/ gen.formula = 0 /\ gen.error = gen.submitted
  /\ ~(gen.formula # 0 /\ gen.error # 0)

\* ------------------------------------------------------------ graph claims
\* the graph started from a domain at least 1e-6 wide
StartedWide == graph.mounted /\ ~NumLess(WidthOf(graph.default), MinRange)

\* the domain never is narrower than 1e-6
NeverCollapses ==
  StartedWide => ~NumLess(WidthOf(DomainOf(graph)), MinRange)

\* a zoom that would go below 1e-6 leaves the domain as it was
BlockedZoomKeepsDomain ==
  ( /\ StartedWide
    /\ graph.lastAction = "zoom"
    /\ NumLess(NumMul(WidthOf(graph.before), graph.factor), MinRange) )
  => DomainOf(graph) = graph.before

\* a pan leaves the width as it was
PanKeepsWidth ==
  (StartedWide /\ graph.lastAction = "pan")
  => WidthOf(DomainOf(graph)) = WidthOf(graph.before)

\* C28 as claimed: starting from a domain with xMax - xMin >= 1e-6, after any
\* sequence of zoom-button, wheel, pan-drag and reset actions the domain
\* handed to generateGraphPoints still has xMax - xMin >= 1e-6; a zoom that
\* would go below that width leaves the domain unchanged; and a pan keeps the
\* width unchanged.
C28_Original ==
  /\ NeverCollapses
  /\ BlockedZoomKeepsDomain
  /\ PanKeepsWidth

\* a zoom of a domain started wide was blocked at the 1e-6 bound
BlockedZoomHappens ==
  /\ StartedWide
  /\ graph.lastAction = "zoom"
  /\ NumLess(NumMul(WidthOf(graph.before), graph.factor), MinRange)

\* ------------------------------------------------------------ SVG view claims
\* the scale lies within [0.1, 10]
ScaleWithinLimits ==
  /\ ~ScaleLess(svgView.svgTransform.k, Tenth)
  /\ ~ScaleLess(Ten, svgView.svgTransform.k)

\* a step of a zoom button or of the wheel leaves the offset alone
ZoomKeepsOffset ==
  \/ /\ svgView'.svgTransform.x = svgView.svgTransform.x
     /\ svgView'.svgTransform.y = svgView.svgTransform.y
  \/ ~(ClickSvgZoom \/ onSvgWheel)

\* a step of a drag leaves the scale alone
DragKeepsScale ==
  \/ svgView'.svgTransform.k = svgView.svgTransform.k
  \/ ~MouseMovesOverSvg

\* C29: the scale k of the SVG view stays within [0.1, 10] after any sequence
\* of zoom-button, wheel, reset, pan-drag and formula-change actions; a zoom
\* or a wheel action changes only k; a drag changes only the offset x, y.
C29_ScaleWithinLimits ==
  /\ []ScaleWithinLimits
  /\ [][ZoomKeepsOffset]_vars
  /\ [][DragKeepsScale]_vars

\* at an offset left by a drag, thirteen clicks on zoom in were held at 10
C29_Witness ==
  /\ svgView.svgTransform.k = Ten
  /\ svgView.zooms = MaxZooms
  /\ svgView.svgTransform.x # 0

====
